---- MODULE Spec2Model ----
(***************************************************************************)
(* Order, cart and coupon handling of the delivery marketplace back end:   *)
(* the Express route handlers of orders, carts and coupons and the         *)
(* Mongoose model methods they call, as a state machine over the database  *)
(* collections.  A handler is a sequence of steps, one per database        *)
(* operation it awaits; the code that runs between two awaits is part of   *)
(* the step of the database operation that precedes it.                    *)
(*                                                                         *)
(* Money is fixed point: an amount is an integer number of 1/10000 of a    *)
(* currency unit (Scale per unit, 100 per cent).                           *)
(***************************************************************************)
EXTENDS Integers, Sequences, FiniteSets, TLC

VARIABLES
    products,   \* Product collection: id -> document
    stores,     \* Store collection: id -> document
    users,      \* User collection: id -> document
    orders,     \* Order collection: sequence of documents, the index is the id
    coupons,    \* Coupon collection: sequence of documents
    carts,      \* Cart collection: sequence of documents
    reviews,    \* Review collection: sequence of documents
    registered, \* User documents inserted by POST /api/auth/register
    reqs,       \* requests in flight: slot -> handler position and locals
    nreq,       \* number of requests admitted so far
    now         \* the clock read by new Date()

vars == <<products, stores, users, orders, coupons, carts, reviews, registered,
         reqs, nreq, now>>

----------------------------------------------------------------------------
(* Bounds of the model *)

MaxOrders == 2
MaxQty == 2
MaxLines == 2
MaxRequests == 3

Scale == 100 * 100
Cent == Scale \div 100

Max(a, b) == IF a >= b THEN a ELSE b
Min(a, b) == IF a <= b THEN a ELSE b

Slots == {1, 2}

RECURSIVE SumSeq(_)
SumSeq(s) == IF s = <<>> THEN 0 ELSE Head(s) + SumSeq(Tail(s))

\* Array.prototype.find / findIndex: the first index with the property, 0 if none
FirstIndex(s, P(_)) ==
    IF \E i \in 1..Len(s) : P(s[i])
    THEN CHOOSE i \in 1..Len(s) : P(s[i]) /\ \A j \in 1..(i - 1) : ~P(s[j])
    ELSE 0

\* a field that is null / undefined is the empty sequence, a set one <<v>>
Null == <<>>
Some(v) == <<v>>

\* document.save(): Mongoose writes the paths of the in-memory document that were
\* set to a value other than the loaded one, and leaves the other paths of the
\* stored document alone
SaveModified(stored, loaded, doc) ==
    [f \in DOMAIN stored |-> IF doc[f] # loaded[f] THEN doc[f] ELSE stored[f]]

----------------------------------------------------------------------------
(* Users and roles *)

Users == {"ana", "beto", "owner", "admin", "driver"}

RoleOf(u) ==
    CASE u = "owner" -> "store_owner"
      [] u = "admin" -> "admin"
      [] u = "driver" -> "delivery_driver"
      [] OTHER -> "client"

----------------------------------------------------------------------------
(* Product model *)

ProductIds == {"p1", "p2"}
StoreIds == {"s1", "s2"}

\* productSchema.virtual("finalPrice")
finalPrice(p) ==
    IF ~p.discount.isActive THEN p.price
    ELSE IF p.discount.startDate # Null /\ now < p.discount.startDate[1] THEN p.price
    ELSE IF p.discount.endDate # Null /\ now > p.discount.endDate[1] THEN p.price
    ELSE IF p.discount.type = "percentage"
         THEN (p.price * (100 - p.discount.value)) \div 100
         ELSE Max(0, p.price - p.discount.value)

\* productSchema.methods.isInStock
isInStock(p, quantity) ==
    IF p.stock = Null THEN p.isAvailable
    ELSE p.isAvailable /\ p.stock[1] >= quantity

\* the $inc of a numeric field; MongoDB rejects $inc of a field that holds null
IncOk(field) == field # Null
Inc(field, by) == Some(field[1] + by)

----------------------------------------------------------------------------
(* Store model *)

\* storeSchema.methods.distanceFrom: the haversine distance in metres between
\* the store's location and the address, tabulated for the addresses of the model
\* (s1 at lat -34.6037 lng -58.3816, s2 at -34.5875 -58.4200;
\*  "near" is -34.6100 -58.3900, "far" is -34.7000 -58.5000)
distanceFrom(s, addr) ==
    CASE s = "s1" /\ addr = "near" -> 1040
      [] s = "s2" /\ addr = "near" -> 3715
      [] s = "s1" /\ addr = "far" -> 15230
      [] s = "s2" /\ addr = "far" -> 14493

\* canDeliverTo that accepts every address
canDeliverTo_AnyDistance(s, addr) == distanceFrom(s, addr) >= 0

\* storeSchema.methods.canDeliverTo (deliveryRadius is in km)
canDeliverTo(s, addr) == distanceFrom(s, addr) <= stores[s].deliveryRadius * 1000

----------------------------------------------------------------------------
(* Order model *)

StatusEnum == {"pending", "confirmed", "preparing", "ready", "on_way",
               "delivered", "cancelled", "refunded"}

\* orderSchema.methods.calculateLoyaltyPoints: 1 point per 10 currency units
calculateLoyaltyPoints(o) == o.pricing.total \div (10 * Scale)

\* orderSchema.methods.canBeCancelled
canBeCancelled(o) == o.status \in {"pending", "confirmed"}

\* orderSchema.methods.canBeRated: rating.overall is 0 while the order is unrated
canBeRated(o) == o.status = "delivered" /\ o.rating.overall = 0

\* updateStatus that also refreshes the delivery fee from the store
updateStatus_Reprice(o, newStatus) ==
    [o EXCEPT !.status = newStatus,
              !.pricing = [@ EXCEPT !.deliveryFee = stores[o.store].deliveryFee]]

\* orderSchema.methods.updateStatus, before its save()
updateStatus(o, newStatus) ==
    LET t == o.timing IN
    [o EXCEPT
        !.status = newStatus,
        !.timing = CASE newStatus = "confirmed" -> [t EXCEPT !.confirmedAt = now]
                     [] newStatus = "ready" -> [t EXCEPT !.preparedAt = now]
                     [] newStatus = "on_way" -> [t EXCEPT !.pickedUpAt = now]
                     [] newStatus = "delivered" -> [t EXCEPT !.deliveredAt = now]
                     [] OTHER -> t,
        !.loyaltyPointsEarned =
            IF newStatus = "delivered" THEN calculateLoyaltyPoints(o) ELSE @]

----------------------------------------------------------------------------
(* POST /api/orders: create order *)

\* String.prototype.toUpperCase on the coupon codes of the model
toUpperCase(code) ==
    CASE code = "first10" -> "FIRST10"
      [] code = "save5" -> "SAVE5"
      [] code = "welcome20" -> "WELCOME20"
      [] code = "freeship" -> "FREESHIP"
      [] code = "summer" -> "SUMMER"
      [] OTHER -> code

\* the validCoupons table of the handler
validCoupons ==
    [FIRST10 |-> [type |-> "percentage", value |-> 10],
     SAVE5 |-> [type |-> "fixed", value |-> 5],
     WELCOME20 |-> [type |-> "percentage", value |-> 20]]

\* the coupon sub-document stored with the order (null without a valid code)
orderCoupon(couponCode) ==
    IF couponCode # "" /\ toUpperCase(couponCode) \in DOMAIN validCoupons
    THEN Some([code |-> toUpperCase(couponCode),
               type |-> validCoupons[toUpperCase(couponCode)].type,
               discount |-> validCoupons[toUpperCase(couponCode)].value])
    ELSE Null

\* the discount the handler computes from the coupon code
orderDiscount(couponCode, subtotal) ==
    LET c == orderCoupon(couponCode) IN
    IF c = Null THEN 0
    ELSE IF c[1].type = "percentage" THEN (subtotal * c[1].discount) \div 100
    ELSE c[1].discount * Scale

\* the sum of the prices of the option choices of a line that the product offers
RECURSIVE optionsPrice(_, _)
optionsPrice(p, options) ==
    IF options = <<>> THEN 0
    ELSE LET option == Head(options)
             NameIs(o) == o.name = option.name
             oi == FirstIndex(p.options, NameIs)
             ChoiceIs(c) == c.name = option.choice
             ci == IF oi = 0 THEN 0 ELSE FirstIndex(p.options[oi].choices, ChoiceIs)
         IN (IF ci = 0 THEN 0 ELSE p.options[oi].choices[ci].price)
            + optionsPrice(p, Tail(options))

\* (itemPrice + optionsPrice) * item.quantity
totalItemPrice(p, item) == (finalPrice(p) + optionsPrice(p, item.options)) * item.quantity

\* the orderItems entry pushed for a line
orderItem(pid, p, item) ==
    [product |-> pid, name |-> p.name, price |-> finalPrice(p),
     quantity |-> item.quantity, options |-> item.options]

\* the pricing with the total left unclamped
orderPricing_NoClamp(subtotal, deliveryFee, couponCode) ==
    LET serviceFee == (subtotal * 5) \div 100
        tax == (subtotal * 10) \div 100
        discount == orderDiscount(couponCode, subtotal)
    IN [subtotal |-> subtotal, deliveryFee |-> deliveryFee, serviceFee |-> serviceFee,
        tax |-> tax, discount |-> discount,
        total |-> subtotal + deliveryFee + serviceFee + tax - discount]

\* the pricing sub-document: fees, tax, discount and total
orderPricing(subtotal, deliveryFee, couponCode) ==
    LET serviceFee == (subtotal * 5) \div 100
        tax == (subtotal * 10) \div 100
        discount == orderDiscount(couponCode, subtotal)
    IN [subtotal |-> subtotal, deliveryFee |-> deliveryFee, serviceFee |-> serviceFee,
        tax |-> tax, discount |-> discount,
        total |-> Max(0, subtotal + deliveryFee + serviceFee + tax - discount)]

\* Math.round(20 + distance * 3), distance in km
estimatedDelivery(s, addr) == (20 * 1000 + distanceFrom(s, addr) * 3 + 500) \div 1000

NoTiming == [estimatedPreparation |-> 0, estimatedDelivery |-> 0, confirmedAt |-> 0,
             preparedAt |-> 0, pickedUpAt |-> 0, deliveredAt |-> 0]

\* the document Order.create stores (the schema defaults included)
newOrder(q) ==
    [customer |-> q.user, store |-> q.store, items |-> q.orderItems,
     status |-> "pending",
     deliveryAddress |-> q.addr,
     pricing |-> orderPricing(q.subtotal, q.deliveryFee, q.couponCode),
     coupon |-> orderCoupon(q.couponCode),
     timing |-> [NoTiming EXCEPT !.estimatedPreparation = 20,
                                 !.estimatedDelivery = estimatedDelivery(q.store, q.addr)],
     rating |-> [food |-> 0, delivery |-> 0, overall |-> 0],
     cancellationReason |-> "",
     loyaltyPointsEarned |-> 0]

Idle == [pc |-> "idle"]
Free(r) == reqs[r].pc \in {"idle", "done"}
\* the response: the handler's locals are dead once it has answered
Done(q, code) == [pc |-> "done", kind |-> q.kind, oid |-> q.oid, res |-> code]
Reply(r, code) == reqs' = [reqs EXCEPT ![r] = Done(@, code)]
\* a request is admitted while the request budget lasts
Open(r) == Free(r) /\ nreq < MaxRequests
Admit(r) == Free(r) /\ nreq < MaxRequests /\ nreq' = nreq + 1

\* await Store.findById; the store and delivery checks
CreateOrderStart(r, u, s, items, addr, couponCode) ==
    /\ Admit(r)
    /\ Len(orders) < MaxOrders
    /\ LET q == [pc |-> "items", kind |-> "create", user |-> u, store |-> s,
                 items |-> items, addr |-> addr, couponCode |-> couponCode,
                 i |-> 1, subtotal |-> 0, orderItems |-> <<>>, oid |-> 0]
           \* a request answered here keeps the store and address it named
           early(code) == [store |-> s, addr |-> addr] @@ Done(q, code)
       IN reqs' = [reqs EXCEPT ![r] =
            IF s \notin DOMAIN stores \/ ~stores[s].isActive THEN early(404)
            ELSE IF ~canDeliverTo(s, addr) THEN early(400)
            ELSE [deliveryFee |-> stores[s].deliveryFee] @@ q]
    /\ UNCHANGED <<reviews, registered, products, stores, users, orders, coupons, carts, now>>

\* await Product.findById for line i, the availability and stock checks, the
\* line's price; after the last line the handler goes on to Order.create
CreateOrderItem(r) ==
    /\ reqs[r].pc = "items"
    /\ LET q == reqs[r]
           item == q.items[q.i]
           p == products[item.productId]
       IN IF ~p.isAvailable \/ p.store # q.store THEN Reply(r, 400)
          ELSE IF ~isInStock(p, item.quantity) THEN Reply(r, 400)
          ELSE reqs' = [reqs EXCEPT ![r] =
                [q EXCEPT !.subtotal = @ + totalItemPrice(p, item),
                          !.orderItems = Append(@, orderItem(item.productId, p, item)),
                          !.i = @ + 1,
                          !.pc = IF q.i = Len(q.items) THEN "create" ELSE "items"]]
    /\ UNCHANGED <<reviews, registered, products, stores, users, orders, coupons, carts, now, nreq>>

\* await Order.create
CreateOrderInsert(r) ==
    /\ reqs[r].pc = "create"
    /\ orders' = Append(orders, newOrder(reqs[r]))
    /\ reqs' = [reqs EXCEPT ![r] = [@ EXCEPT !.pc = "stock", !.i = 1, !.oid = Len(orders) + 1]]
    /\ UNCHANGED <<reviews, registered, products, stores, users, coupons, carts, now, nreq>>

\* await Product.findByIdAndUpdate($inc stock, totalOrders) for line i
CreateOrderStock(r) ==
    /\ reqs[r].pc = "stock"
    /\ LET q == reqs[r]
           item == q.items[q.i]
           p == products[item.productId]
       IN IF ~IncOk(p.stock)
          THEN /\ Reply(r, 500)
               /\ UNCHANGED products
          ELSE /\ products' = [products EXCEPT ![item.productId] =
                    [@ EXCEPT !.stock = Inc(@, -item.quantity),
                              !.totalOrders = @ + item.quantity]]
               /\ reqs' = [reqs EXCEPT ![r] =
                    [q EXCEPT !.i = @ + 1,
                              !.pc = IF q.i = Len(q.items) THEN "stats" ELSE "stock"]]
    /\ UNCHANGED <<reviews, registered, stores, users, orders, coupons, carts, now, nreq>>

\* await Store.findByIdAndUpdate($inc totalOrders, totalRevenue)
CreateOrderStats(r) ==
    /\ reqs[r].pc = "stats"
    /\ LET total == orderPricing(reqs[r].subtotal, reqs[r].deliveryFee, reqs[r].couponCode).total
       IN stores' = [stores EXCEPT ![reqs[r].store] =
            [@ EXCEPT !.totalOrders = @ + 1, !.totalRevenue = @ + total]]
    /\ reqs' = [reqs EXCEPT ![r] = [@ EXCEPT !.pc = "loyalty"]]
    /\ UNCHANGED <<reviews, registered, products, users, orders, coupons, carts, now, nreq>>

\* await User.findByIdAndUpdate($inc loyaltyPoints), then the 201 response
CreateOrderLoyalty(r) ==
    /\ reqs[r].pc = "loyalty"
    /\ LET total == orderPricing(reqs[r].subtotal, reqs[r].deliveryFee, reqs[r].couponCode).total
       IN users' = [users EXCEPT ![reqs[r].user] =
            [@ EXCEPT !.loyaltyPoints = @ + (total \div (10 * Scale))]]
    /\ Reply(r, 201)
    /\ UNCHANGED <<reviews, registered, products, stores, orders, coupons, carts, now, nreq>>

----------------------------------------------------------------------------
(* PUT /api/orders/:id/status *)

\* the authorization check of the status handler
mayUpdateStatus(u, o) ==
    RoleOf(u) = "admin" \/ stores[o.store].owner = u \/ RoleOf(u) = "delivery_driver"

\* await Order.findById(id).populate("store"), the authorization check and the
\* synchronous part of order.updateStatus(status).  The handler never consults
\* validationResult, so any status string reaches updateStatus.
StatusRead(r, u, oid, status) ==
    /\ Admit(r)
    /\ LET q == [pc |-> "statusSave", kind |-> "status", oid |-> oid] IN
       reqs' = [reqs EXCEPT ![r] =
            IF oid > Len(orders) THEN Done(q, 404)
            ELSE IF ~mayUpdateStatus(u, orders[oid]) THEN [user |-> u] @@ Done(q, 403)
            ELSE [pc |-> "statusSave", kind |-> "status", oid |-> oid, user |-> u,
                  loaded |-> orders[oid], doc |-> updateStatus(orders[oid], status)]]
    /\ UNCHANGED <<reviews, registered, products, stores, users, orders, coupons, carts, now>>

\* the save() of updateStatus: schema validation (the status enum), then the
\* write of the modified paths; then the 200 response
StatusSave(r) ==
    /\ reqs[r].pc = "statusSave"
    /\ LET q == reqs[r] IN
       IF q.doc.status \notin StatusEnum
       THEN /\ Reply(r, 500)
            /\ UNCHANGED orders
       ELSE /\ orders' = [orders EXCEPT ![q.oid] =
                    [SaveModified(@, q.loaded, q.doc) EXCEPT
                        !.timing = SaveModified(@, q.loaded.timing, q.doc.timing)]]
            /\ Reply(r, 200)
    /\ UNCHANGED <<reviews, registered, products, stores, users, coupons, carts, now, nreq>>

----------------------------------------------------------------------------
(* PUT /api/orders/:id/cancel *)

\* await Order.findById(id) and the checks that follow it
CancelRead(r, u, oid, reason) ==
    /\ Admit(r)
    /\ LET q == [pc |-> "cancelSave", kind |-> "cancel", oid |-> oid] IN
       reqs' = [reqs EXCEPT ![r] =
            IF oid > Len(orders) THEN Done(q, 404)
            ELSE IF orders[oid].customer # u /\ RoleOf(u) # "admin" THEN Done(q, 403)
            ELSE IF ~canBeCancelled(orders[oid]) THEN Done(q, 400)
            ELSE [pc |-> "cancelSave", kind |-> "cancel", oid |-> oid,
                  reason |-> reason, items |-> orders[oid].items, i |-> 1]]
    /\ UNCHANGED <<reviews, registered, products, stores, users, orders, coupons, carts, now>>

\* await order.save() with status and cancellationReason modified
CancelSave(r) ==
    /\ reqs[r].pc = "cancelSave"
    /\ orders' = [orders EXCEPT ![reqs[r].oid] =
            [@ EXCEPT !.status = "cancelled", !.cancellationReason = reqs[r].reason]]
    /\ reqs' = [reqs EXCEPT ![r] = [@ EXCEPT !.pc = "cancelRestore"]]
    /\ UNCHANGED <<reviews, registered, products, stores, users, coupons, carts, now, nreq>>

\* await Product.findByIdAndUpdate($inc stock) for item i; after the last one
\* the 200 response
CancelRestore(r) ==
    /\ reqs[r].pc = "cancelRestore"
    /\ LET q == reqs[r]
           item == q.items[q.i]
       IN IF ~IncOk(products[item.product].stock)
          THEN /\ Reply(r, 500)
               /\ UNCHANGED products
          ELSE /\ products' = [products EXCEPT ![item.product] =
                    [@ EXCEPT !.stock = Inc(@, item.quantity)]]
               /\ IF q.i = Len(q.items) THEN Reply(r, 200)
                  ELSE reqs' = [reqs EXCEPT ![r] = [q EXCEPT !.i = @ + 1]]
    /\ UNCHANGED <<reviews, registered, stores, users, orders, coupons, carts, now, nreq>>

----------------------------------------------------------------------------
(* POST /api/orders/:id/rate *)

\* rating values are Numbers: they are held in halves, so that 2.5 is 5
RatingScale == 2

\* Math.round((food + delivery) / 2): the half is rounded up
overallRating(food, delivery) ==
    ((food + delivery + RatingScale) \div (2 * RatingScale)) * RatingScale

\* the min: 1, max: 5 validators of the rating paths
ratingValid(rating) ==
    \A v \in {rating.food, rating.delivery, rating.overall} :
        v >= 1 * RatingScale /\ v <= 5 * RatingScale

\* storeSchema.methods.updateRating, before its save(); the store's rating is held
\* as [sum, count] with average = sum / count, so that
\* average * count + newRating is sum + newRating
updateRating(rating, newRating) ==
    [sum |-> rating.sum + newRating, count |-> rating.count + 1]

\* await Order.findById(id).populate("store") and the checks that follow it.
\* The handler never consults validationResult, so food and delivery are unchecked
\* until save() validates the rating paths.
RateRead(r, u, oid, food, delivery) ==
    /\ Admit(r)
    /\ LET q == [pc |-> "rateSave", kind |-> "rate", oid |-> oid] IN
       reqs' = [reqs EXCEPT ![r] =
            IF oid > Len(orders) THEN Done(q, 404)
            ELSE IF orders[oid].customer # u THEN Done(q, 403)
            ELSE IF ~canBeRated(orders[oid]) THEN Done(q, 400)
            ELSE [pc |-> "rateSave", kind |-> "rate", oid |-> oid, user |-> u,
                  rating |-> [food |-> food, delivery |-> delivery,
                              overall |-> overallRating(food, delivery)],
                  store |-> orders[oid].store,
                  storeRating |-> stores[orders[oid].store].rating]]
    /\ UNCHANGED <<reviews, registered, products, stores, users, orders, coupons, carts, now>>

\* await order.save() with rating modified
RateSave(r) ==
    /\ reqs[r].pc = "rateSave"
    /\ IF ~ratingValid(reqs[r].rating)
       THEN /\ Reply(r, 500)
            /\ UNCHANGED orders
       ELSE /\ orders' = [orders EXCEPT ![reqs[r].oid] = [@ EXCEPT !.rating = reqs[r].rating]]
            /\ reqs' = [reqs EXCEPT ![r] = [@ EXCEPT !.pc = "rateStore"]]
    /\ UNCHANGED <<reviews, registered, products, stores, users, coupons, carts, now, nreq>>

\* await order.store.updateRating(overall): the populated store document of the
\* read is changed and saved; then the 200 response
RateStore(r) ==
    /\ reqs[r].pc = "rateStore"
    /\ stores' = [stores EXCEPT ![reqs[r].store] =
            [@ EXCEPT !.rating = updateRating(reqs[r].storeRating, reqs[r].rating.overall)]]
    /\ Reply(r, 200)
    /\ UNCHANGED <<reviews, registered, products, users, orders, coupons, carts, now, nreq>>

----------------------------------------------------------------------------
(* Reviews: the requests of /api/reviews *)

\* isInt({ min: 1, max: 5 }) of the review validators, which the review
\* handlers do consult
isInt1to5(rating) ==
    rating % RatingScale = 0 /\ rating >= 1 * RatingScale /\ rating <= 5 * RatingScale

\* Order.findOne({ _id: orderId, user: req.user.id, store: storeId,
\* status: "delivered" }): the filter is sent as written, and a document matches
\* only if it has each of the paths with the value asked for
findOrderForReview(userId, orderId, storeId) ==
    {o \in 1..Len(orders) :
        /\ o = orderId
        /\ "user" \in DOMAIN orders[o] /\ orders[o].user = userId
        /\ orders[o].store = storeId
        /\ orders[o].status = "delivered"}

\* Review.findOne({ user, order })
findReview(userId, orderId) ==
    {i \in 1..Len(reviews) : reviews[i].user = userId /\ reviews[i].order = orderId}

\* reviewSchema.index({ user: 1, order: 1 }, { unique: true })
reviewIndexAllows(userId, orderId) == findReview(userId, orderId) = {}

\* the schema defaults of the moderation paths of a Review document
ReviewDefaults == [isApproved |-> TRUE, isReported |-> FALSE, reportCount |-> 0]

\* reviewSchema.statics.calcAverageRating: the aggregate over the approved
\* reviews of the store (the average in tenths, to the nearest tenth) and
\* Store.findByIdAndUpdate with averageRating and totalReviews.  The update is
\* cast to the Store schema, which has neither path (its rating is
\* rating.average and rating.count): the paths are dropped and the stored
\* document keeps every value
calcAverageRating(storeId, revs) ==
    LET approved == SelectSeq(revs, LAMBDA v : v.store = storeId /\ v.isApproved)
        total == SumSeq([i \in 1..Len(approved) |-> approved[i].rating])
        n == Len(approved)
        update == IF n > 0
                  THEN [averageRating |-> (10 * total + n * RatingScale)
                                             \div (2 * n * RatingScale),
                        totalReviews |-> n]
                  ELSE [averageRating |-> 0, totalReviews |-> 0]
    IN [f \in DOMAIN stores[storeId] |->
            IF f \in DOMAIN update THEN update[f] ELSE stores[storeId][f]]

\* Review.findById: the index of the review, 0 if none
findReviewById(id) ==
    LET Is(v) == v.id = id IN FirstIndex(reviews, Is)

\* the validation result and await Order.findOne of POST /api/reviews
ReviewCreateStart(r, u, orderId, storeId, rating) ==
    /\ Admit(r)
    /\ LET q == [pc |-> "reviewExisting", kind |-> "review", oid |-> orderId,
                 user |-> u, store |-> storeId, rating |-> rating]
       IN reqs' = [reqs EXCEPT ![r] =
            IF ~isInt1to5(rating) THEN Done(q, 400)
            ELSE IF findOrderForReview(u, orderId, storeId) = {} THEN Done(q, 404)
            ELSE q]
    /\ UNCHANGED <<products, stores, users, orders, coupons, carts, reviews, registered, now>>

\* await Review.findOne: the check for an existing review of the user and order
ReviewCreateExisting(r) ==
    /\ reqs[r].pc = "reviewExisting"
    /\ IF findReview(reqs[r].user, reqs[r].oid) # {}
       THEN Reply(r, 400)
       ELSE reqs' = [reqs EXCEPT ![r] = [@ EXCEPT !.pc = "reviewSave"]]
    /\ UNCHANGED <<products, stores, users, orders, coupons, carts, reviews, registered, now, nreq>>

\* await review.save(): the insert, refused by the unique index when the pair
\* has a review by now, and its post-save calcAverageRating; then the 201 response
ReviewCreateSave(r) ==
    /\ reqs[r].pc = "reviewSave"
    /\ LET q == reqs[r] IN
       IF ~reviewIndexAllows(q.user, q.oid)
       THEN /\ Reply(r, 500)
            /\ UNCHANGED reviews
            /\ UNCHANGED stores
       ELSE /\ reviews' = Append(reviews, [id |-> nreq, user |-> q.user, store |-> q.store,
                                           order |-> q.oid, rating |-> q.rating]
                                          @@ ReviewDefaults)
            /\ stores' = [stores EXCEPT ![q.store] = calcAverageRating(q.store, reviews')]
            /\ Reply(r, 201)
    /\ UNCHANGED <<products, users, orders, coupons, carts, registered, now, nreq>>

\* the validation result, await Review.findById and the ownership check of
\* PUT /api/reviews/:id, then Object.assign(review, req.body)
ReviewUpdateStart(r, u, id, rating) ==
    /\ Admit(r)
    /\ LET q == [pc |-> "reviewUpdate", kind |-> "reviewUpdate", oid |-> id,
                 rating |-> rating]
       IN reqs' = [reqs EXCEPT ![r] =
            IF ~isInt1to5(rating) THEN Done(q, 400)
            ELSE IF findReviewById(id) = 0 THEN Done(q, 404)
            ELSE IF reviews[findReviewById(id)].user # u THEN Done(q, 403)
            ELSE q]
    /\ UNCHANGED <<products, stores, users, orders, coupons, carts, reviews, registered, now>>

\* await review.save() of the update with its post-save calcAverageRating; then
\* the 200 response
ReviewUpdateSave(r) ==
    /\ reqs[r].pc = "reviewUpdate"
    /\ LET k == findReviewById(reqs[r].oid) IN
       /\ reviews' = [reviews EXCEPT ![k] = [@ EXCEPT !.rating = reqs[r].rating]]
       /\ stores' = [stores EXCEPT ![reviews[k].store] =
                         calcAverageRating(reviews[k].store, reviews')]
    /\ Reply(r, 200)
    /\ UNCHANGED <<products, users, orders, coupons, carts, registered, now, nreq>>

\* DELETE /api/reviews/:id: await Review.findById and the ownership check
ReviewDeleteStart(r, u, id) ==
    /\ Admit(r)
    /\ LET q == [pc |-> "reviewDelete", kind |-> "reviewDelete", oid |-> id] IN
       reqs' = [reqs EXCEPT ![r] =
            IF findReviewById(id) = 0 THEN Done(q, 404)
            ELSE IF reviews[findReviewById(id)].user # u /\ RoleOf(u) # "admin"
            THEN Done(q, 403)
            ELSE q]
    /\ UNCHANGED <<products, stores, users, orders, coupons, carts, reviews, registered, now>>

\* await Review.findByIdAndDelete: a query, which runs no document hook, so
\* calcAverageRating is not called; then the 200 response
ReviewDeleteRemove(r) ==
    /\ reqs[r].pc = "reviewDelete"
    /\ reviews' = SelectSeq(reviews, LAMBDA v : v.id # reqs[r].oid)
    /\ Reply(r, 200)
    /\ UNCHANGED <<products, stores, users, orders, coupons, carts, registered, now, nreq>>

\* POST /api/reviews/:id/report: await Review.findById, the report count and the
\* auto-hide at 5 reports
ReviewReportStart(r, u, id) ==
    /\ Admit(r)
    /\ LET q == [pc |-> "reviewReport", kind |-> "reviewReport", oid |-> id] IN
       reqs' = [reqs EXCEPT ![r] =
            IF findReviewById(id) = 0 THEN Done(q, 404)
            ELSE LET review == reviews[findReviewById(id)] IN
                 [doc |-> [review EXCEPT
                              !.reportCount = @ + 1, !.isReported = TRUE,
                              !.isApproved = IF review.reportCount + 1 >= 5
                                             THEN FALSE ELSE @]] @@ q]
    /\ UNCHANGED <<products, stores, users, orders, coupons, carts, reviews, registered, now>>

\* await review.save() of the report with its post-save calcAverageRating; then
\* the 200 response
ReviewReportSave(r) ==
    /\ reqs[r].pc = "reviewReport"
    /\ reviews' = [i \in 1..Len(reviews) |->
                      IF reviews[i].id = reqs[r].oid THEN reqs[r].doc ELSE reviews[i]]
    /\ stores' = [stores EXCEPT ![reqs[r].doc.store] =
                      calcAverageRating(reqs[r].doc.store, reviews')]
    /\ Reply(r, 200)
    /\ UNCHANGED <<products, users, orders, coupons, carts, registered, now, nreq>>

----------------------------------------------------------------------------
(* POST /api/auth/register *)

\* body("email").isEmail()
isEmail(email) == email \notin {"", "zoe.mail.com"}

\* normalizeEmail() and the schema's lowercase: true, on the addresses of the model
toLowerCase(email) ==
    CASE email = "Zoe@mail.com" -> "zoe@mail.com"
      [] email = "ANA@mail.com" -> "ana@mail.com"
      [] OTHER -> email

\* User.findOne({ email }): is there a User document with this address
userExists(email) ==
    \/ \E u \in Users : users[u].email = email
    \/ \E i \in 1..Len(registered) : registered[i].email = email

\* a unique index on email that lets every insert through
emailIndexAllows_NotUnique(email) == email = toLowerCase(email)

\* userSchema.email unique: true: the index refuses a second document with the
\* same address
emailIndexAllows(email) == ~userExists(email)

\* the validation result and await User.findOne({ email })
RegisterStart(r, email, role) ==
    /\ Admit(r)
    /\ LET q == [pc |-> "userCreate", kind |-> "register", oid |-> 0,
                 email |-> toLowerCase(email), role |-> role]
       IN reqs' = [reqs EXCEPT ![r] =
            IF ~isEmail(email) \/ role \notin {"", "client", "store_owner"} THEN Done(q, 400)
            ELSE IF userExists(q.email) THEN Done(q, 400)
            ELSE q]
    /\ UNCHANGED <<products, stores, users, orders, coupons, carts, reviews, registered, now>>

\* await User.create: the insert, refused by the unique index (a 500 answer)
\* when the address has been taken by now; then the 201 response
RegisterCreate(r) ==
    /\ reqs[r].pc = "userCreate"
    /\ LET q == reqs[r] IN
       IF ~emailIndexAllows(q.email)
       THEN /\ Reply(r, 500)
            /\ UNCHANGED registered
       ELSE /\ registered' = Append(registered,
                    [email |-> q.email, loyaltyPoints |-> 0,
                     role |-> IF q.role = "" THEN "client" ELSE q.role])
            /\ Reply(r, 201)
    /\ UNCHANGED <<products, stores, users, orders, coupons, carts, reviews, now, nreq>>

----------------------------------------------------------------------------
(* Catalogue changes *)

\* DELETE /api/stores/:id: the owner or an admin deactivates the store (soft
\* delete)
DeleteStore(r, u, s) ==
    /\ Admit(r)
    /\ LET q == [kind |-> "storeDelete", oid |-> 0] IN
       IF s \notin DOMAIN stores
       THEN /\ reqs' = [reqs EXCEPT ![r] = Done(q, 404)]
            /\ UNCHANGED stores
       ELSE IF stores[s].owner # u /\ RoleOf(u) # "admin"
       THEN /\ reqs' = [reqs EXCEPT ![r] = Done(q, 403)]
            /\ UNCHANGED stores
       ELSE /\ stores' = [stores EXCEPT ![s] = [@ EXCEPT !.isActive = FALSE]]
            /\ reqs' = [reqs EXCEPT ![r] = Done(q, 200)]
    /\ UNCHANGED <<reviews, registered, products, users, orders, coupons, carts, now>>

\* PUT /api/stores/:id with deliveryInfo.deliveryRadius in the body (km, between
\* the schema's min and max)
UpdateStoreRadius(r, u, s, radius) ==
    /\ Admit(r)
    /\ LET q == [kind |-> "storeRadius", oid |-> 0] IN
       IF stores[s].owner # u /\ RoleOf(u) # "admin"
       THEN /\ reqs' = [reqs EXCEPT ![r] = Done(q, 403)]
            /\ UNCHANGED stores
       ELSE /\ stores' = [stores EXCEPT ![s] = [@ EXCEPT !.deliveryRadius = radius]]
            /\ reqs' = [reqs EXCEPT ![r] = Done(q, 200)]
    /\ UNCHANGED <<reviews, registered, products, users, orders, coupons, carts, now>>

\* PUT /api/stores/:id with deliveryInfo.deliveryFee in the body: the owner or an
\* admin changes the store's delivery fee
UpdateStore(r, u, s, fee) ==
    /\ Admit(r)
    /\ LET q == [kind |-> "store", oid |-> 0] IN
       IF stores[s].owner # u /\ RoleOf(u) # "admin"
       THEN /\ reqs' = [reqs EXCEPT ![r] = Done(q, 403)]
            /\ UNCHANGED stores
       ELSE /\ stores' = [stores EXCEPT ![s] = [@ EXCEPT !.deliveryFee = fee]]
            /\ reqs' = [reqs EXCEPT ![r] = Done(q, 200)]
    /\ UNCHANGED <<reviews, registered, products, users, orders, coupons, carts, now>>

\* a write of the Product document's price (the catalogue is maintained outside
\* the order routes)
SetProductPrice(r, p, price) ==
    /\ Admit(r)
    /\ products' = [products EXCEPT ![p] = [@ EXCEPT !.price = price]]
    /\ reqs' = [reqs EXCEPT ![r] = Done([kind |-> "product", oid |-> 0], 200)]
    /\ UNCHANGED <<reviews, registered, stores, users, orders, coupons, carts, now>>

----------------------------------------------------------------------------
(* Coupon model *)

\* Math.round(x * 100) / 100
RoundCents(x) == ((x + Cent \div 2) \div Cent) * Cent

\* the number of usedBy entries of the user
userUsageCount(c, userId) ==
    Cardinality({e \in 1..Len(c.usedBy) : c.usedBy[e].user = userId})

\* canUserUseCoupon without the check of the minimum order amount
canUserUseCoupon_NoMinimum(c, userId, orderAmount) ==
    IF ~c.isActive \/ now < c.startDate \/ now > c.endDate
    THEN [valid |-> FALSE, reason |-> "Coupon expired or inactive"]
    ELSE IF c.maxUsage # Null /\ c.usageCount >= c.maxUsage[1]
    THEN [valid |-> FALSE, reason |-> "Coupon usage limit reached"]
    ELSE IF userUsageCount(c, userId) >= c.maxUsagePerUser
    THEN [valid |-> FALSE, reason |-> "User usage limit reached"]
    ELSE IF c.eligibleUsers # {} /\ userId \notin c.eligibleUsers
    THEN [valid |-> FALSE, reason |-> "User not eligible for this coupon"]
    ELSE [valid |-> TRUE, reason |-> ""]

\* couponSchema.methods.canUserUseCoupon
canUserUseCoupon(c, userId, orderAmount) ==
    IF ~c.isActive \/ now < c.startDate \/ now > c.endDate
    THEN [valid |-> FALSE, reason |-> "Coupon expired or inactive"]
    ELSE IF c.maxUsage # Null /\ c.usageCount >= c.maxUsage[1]
    THEN [valid |-> FALSE, reason |-> "Coupon usage limit reached"]
    ELSE IF userUsageCount(c, userId) >= c.maxUsagePerUser
    THEN [valid |-> FALSE, reason |-> "User usage limit reached"]
    ELSE IF orderAmount < c.minOrderAmount
    THEN [valid |-> FALSE, reason |-> "Minimum order amount"]
    ELSE IF c.eligibleUsers # {} /\ userId \notin c.eligibleUsers
    THEN [valid |-> FALSE, reason |-> "User not eligible for this coupon"]
    ELSE [valid |-> TRUE, reason |-> ""]

\* couponSchema.methods.calculateDiscount; discountValue is a percentage or a
\* number of currency units, maxDiscountAmount an amount
calculateDiscount(c, orderAmount, deliveryFee) ==
    LET percentage == (orderAmount * c.discountValue) \div 100
        discount ==
            CASE c.discountType = "percentage" ->
                    IF /\ c.maxDiscountAmount # Null
                       /\ c.maxDiscountAmount # Some(0)
                       /\ percentage > c.maxDiscountAmount[1]
                    THEN c.maxDiscountAmount[1] ELSE percentage
              [] c.discountType = "fixed" -> Min(c.discountValue * Scale, orderAmount)
              [] c.discountType = "freeDelivery" -> deliveryFee
    IN RoundCents(discount)

\* Coupon.findOne({ code, isActive: true }): the index of the coupon, 0 if none
findCoupon(code) ==
    LET Is(c) == c.code = code /\ c.isActive IN FirstIndex(coupons, Is)

\* POST /api/coupons/validate: await Coupon.findOne, the store check (only when
\* the body carries storeId), canUserUseCoupon, calculateDiscount, the response
ValidateCoupon(r, u, code, orderAmount, storeId) ==
    /\ Admit(r)
    /\ LET c == findCoupon(toUpperCase(code))
           res == IF c = 0 THEN 404
                  ELSE IF /\ storeId # Null
                          /\ coupons[c].applicableStores # {}
                          /\ storeId[1] \notin coupons[c].applicableStores THEN 400
                  ELSE IF ~canUserUseCoupon(coupons[c], u, orderAmount).valid THEN 400
                  ELSE 200
           discountAmount == IF res = 200 THEN calculateDiscount(coupons[c], orderAmount, 0)
                             ELSE 0
       IN reqs' = [reqs EXCEPT ![r] =
            [pc |-> "done", kind |-> "validate", oid |-> 0, res |-> res,
             user |-> u, code |-> code, orderAmount |-> orderAmount, storeId |-> storeId,
             discountAmount |-> discountAmount,
             finalAmount |-> Max(0, orderAmount - discountAmount)]]
    /\ UNCHANGED <<reviews, registered, products, stores, users, orders, coupons, carts, now>>

\* Object.assign(coupon, req.body)
assign(coupon, body) ==
    [f \in DOMAIN coupon |-> IF f \in DOMAIN body THEN body[f] ELSE coupon[f]]

\* PUT /api/coupons/:id: await Coupon.findById, the ownership check, the check
\* of the dates when the body carries both, Object.assign
UpdateCouponStart(r, u, c, body) ==
    /\ Admit(r)
    /\ LET q == [kind |-> "updateCoupon", oid |-> 0] IN
       reqs' = [reqs EXCEPT ![r] =
            IF c > Len(coupons) THEN Done(q, 404)
            ELSE IF RoleOf(u) # "admin" /\ coupons[c].createdBy # u THEN Done(q, 403)
            ELSE IF /\ {"startDate", "endDate"} \subseteq DOMAIN body
                    /\ body.endDate <= body.startDate THEN Done(q, 400)
            ELSE [pc |-> "couponSave", kind |-> "updateCoupon", oid |-> 0, c |-> c,
                  loaded |-> coupons[c], doc |-> assign(coupons[c], body)]]
    /\ UNCHANGED <<reviews, registered, products, stores, users, orders, coupons, carts, now>>

\* await coupon.save(), then the 200 response
UpdateCouponSave(r) ==
    /\ reqs[r].pc = "couponSave"
    /\ coupons' = [coupons EXCEPT ![reqs[r].c] = SaveModified(@, reqs[r].loaded, reqs[r].doc)]
    /\ Reply(r, 200)
    /\ UNCHANGED <<reviews, registered, products, stores, users, orders, carts, now, nreq>>

----------------------------------------------------------------------------
(* POST /api/coupons *)

\* a Coupon document with the schema defaults
CouponDefaults ==
    [code |-> "", discountType |-> "fixed", discountValue |-> 0, maxDiscountAmount |-> Null,
     minOrderAmount |-> 0, maxUsage |-> Null, maxUsagePerUser |-> 1, usageCount |-> 0,
     startDate |-> 5, endDate |-> 20, applicableStores |-> {}, eligibleUsers |-> {},
     isActive |-> TRUE, createdBy |-> "admin", usedBy |-> <<>>]

\* String.prototype.length of the codes of the model
length(code) ==
    CASE code = "ab" -> 2
      [] code \in {"summer", "SUMMER"} -> 6
      [] code \in {"freeship", "FREESHIP"} -> 8
      [] OTHER -> 9

\* couponSchema.code unique: true: the index refuses a second document with the
\* same code
codeIndexAllows(code) == \A i \in 1..Len(coupons) : coupons[i].code # code

\* the validation result, the role check, the upper-cased code and the check of
\* the dates; a store owner's request goes on to Store.find, an admin's to save()
CreateCouponStart(r, u, code, startDate, endDate) ==
    /\ Admit(r)
    /\ LET q == [kind |-> "couponCreate", oid |-> 0, user |-> u,
                 couponData |-> [CouponDefaults EXCEPT !.code = toUpperCase(code),
                                    !.createdBy = u, !.startDate = startDate,
                                    !.endDate = endDate]]
       IN reqs' = [reqs EXCEPT ![r] =
            IF length(code) < 3 \/ length(code) > 20 THEN Done(q, 400)
            ELSE IF RoleOf(u) \notin {"admin", "store_owner"} THEN Done(q, 403)
            ELSE IF endDate <= startDate THEN Done(q, 400)
            ELSE IF RoleOf(u) = "store_owner" THEN [pc |-> "couponStores"] @@ q
            ELSE [pc |-> "couponSave"] @@ q]
    /\ UNCHANGED <<products, stores, users, orders, coupons, carts, reviews, registered, now>>

\* await Store.find({ owner }): the coupon is limited to the owner's stores
CreateCouponStores(r) ==
    /\ reqs[r].pc = "couponStores"
    /\ LET userStores == {s \in StoreIds : stores[s].owner = reqs[r].user} IN
       reqs' = [reqs EXCEPT ![r] =
            [@ EXCEPT !.pc = "couponSave", !.couponData.applicableStores = userStores]]
    /\ UNCHANGED <<products, stores, users, orders, coupons, carts, reviews, registered, now, nreq>>

\* await coupon.save(): the insert, refused by the unique index (error code
\* 11000, a 400 answer) when the code exists; then the 201 response
CreateCouponSave(r) ==
    /\ reqs[r].pc = "couponSave"
    /\ IF ~codeIndexAllows(reqs[r].couponData.code)
       THEN /\ Reply(r, 400)
            /\ UNCHANGED coupons
       ELSE /\ coupons' = Append(coupons, reqs[r].couponData)
            /\ Reply(r, 201)
    /\ UNCHANGED <<products, stores, users, orders, carts, reviews, registered, now, nreq>>

----------------------------------------------------------------------------
(* Cart model *)

\* the store ids of cart requests: the stores, and a well-formed id of no store
CartStoreIds == StoreIds \cup {"s9"}

\* new Cart({ user, store, items: [] }) with the schema defaults
newCart(userId, storeId) ==
    [user |-> userId, store |-> storeId, items |-> <<>>,
     subtotal |-> 0, tax |-> 0, deliveryFee |-> 0, serviceFee |-> 0, discount |-> 0,
     total |-> 0, appliedCoupon |-> Null, deliveryAddress |-> Null, isActive |-> TRUE]

\* the totals with the discount left out of the total
cartTotals_NoDiscount(doc) ==
    LET subtotal == SumSeq([i \in 1..Len(doc.items) |-> doc.items[i].totalPrice])
        tax == RoundCents((subtotal * 10) \div 100)
        serviceFee == RoundCents((subtotal * 2) \div 100)
    IN [doc EXCEPT !.subtotal = subtotal, !.tax = tax, !.serviceFee = serviceFee,
                   !.total = RoundCents(subtotal + tax + doc.deliveryFee + serviceFee)]

\* cartSchema.pre("save"): the totals of the document being saved
cartTotals(doc) ==
    LET subtotal == SumSeq([i \in 1..Len(doc.items) |-> doc.items[i].totalPrice])
        tax == RoundCents((subtotal * 10) \div 100)
        serviceFee == RoundCents((subtotal * 2) \div 100)
    IN [doc EXCEPT !.subtotal = subtotal, !.tax = tax, !.serviceFee = serviceFee,
                   !.total = RoundCents(subtotal + tax + doc.deliveryFee + serviceFee
                                        - doc.discount)]

\* the findIndex test of addItem.  A stored customization or addon is a
\* subdocument with an _id, so its JSON differs from the JSON of the request's
\* plain object: the lists compare equal only when both are empty
sameLine(item, productData) ==
    /\ item.product = productData.product
    /\ item.customizations = <<>> /\ productData.customizations = <<>>
    /\ item.addons = <<>> /\ productData.addons = <<>>

\* cartSchema.methods.addItem, before its save()
addItem(doc, productData) ==
    LET Same(item) == sameLine(item, productData)
        existingItemIndex == FirstIndex(doc.items, Same)
    IN IF existingItemIndex > 0
       THEN LET item == doc.items[existingItemIndex] IN
            [doc EXCEPT !.items[existingItemIndex] =
                [item EXCEPT !.quantity = item.quantity + productData.quantity,
                             !.totalPrice = item.price * (item.quantity + productData.quantity)]]
       ELSE [doc EXCEPT !.items = Append(@, productData)]

\* items.id(itemId): the index of the item, 0 if none
itemIndex(doc, itemId) ==
    LET Is(item) == item.id = itemId IN FirstIndex(doc.items, Is)

\* items.pull(itemId)
pull(items, itemId) == SelectSeq(items, LAMBDA item : item.id # itemId)

\* cartSchema.methods.updateItemQuantity, after its item lookup and before its save()
updateItemQuantity(doc, itemId, quantity) ==
    IF quantity <= 0 THEN [doc EXCEPT !.items = pull(@, itemId)]
    ELSE LET k == itemIndex(doc, itemId) IN
         [doc EXCEPT !.items[k] = [@ EXCEPT !.quantity = quantity,
                                            !.totalPrice = doc.items[k].price * quantity]]

\* cartSchema.methods.removeItem, before its save()
removeItem(doc, itemId) == [doc EXCEPT !.items = pull(@, itemId)]

\* cartSchema.methods.clearCart, before its save()
clearCart(doc) == [doc EXCEPT !.items = <<>>, !.appliedCoupon = Null, !.discount = 0]

\* cartSchema.methods.applyCoupon, before its save()
applyCoupon(doc, coupon, discountAmount) ==
    [doc EXCEPT !.appliedCoupon = Some([code |-> coupon.code,
                                        discountAmount |-> discountAmount]),
                !.discount = discountAmount]

\* cartSchema.methods.removeCoupon, before its save()
removeCoupon(doc) == [doc EXCEPT !.appliedCoupon = Null, !.discount = 0]

\* the items of the stored cart after a save: the items pulled from the loaded
\* document are pulled, the changed ones are set, the pushed ones are pushed
SaveItems(stored, loaded, doc) ==
    LET Ids(s) == {s[i].id : i \in 1..Len(s)}
        kept == SelectSeq(stored, LAMBDA item : item.id \notin (Ids(loaded) \ Ids(doc)))
        Changed(item) == \E j \in 1..Len(doc), k \in 1..Len(loaded) :
                            doc[j].id = item.id /\ loaded[k].id = item.id /\ doc[j] # loaded[k]
        InDoc(item) == doc[CHOOSE j \in 1..Len(doc) : doc[j].id = item.id]
    IN [i \in 1..Len(kept) |-> IF Changed(kept[i]) THEN InDoc(kept[i]) ELSE kept[i]]
       \o SelectSeq(doc, LAMBDA item : item.id \notin Ids(loaded))

\* cart.save(): the modified paths of the in-memory document are written
SaveCart(stored, loaded, doc) ==
    [SaveModified(stored, loaded, doc) EXCEPT
        !.items = SaveItems(stored.items, loaded.items, doc.items)]

\* Cart.findOne({ user, store, isActive: true }): the index of the cart, 0 if none
findCart(userId, storeId) ==
    LET Mine(c) == c.user = userId /\ c.store = storeId /\ c.isActive
    IN FirstIndex(carts, Mine)

\* the index without its unique option
uniqueIndexAllows_NotUnique(userId, storeId) == TRUE

\* cartSchema.index({ user: 1, store: 1 }, { unique: true }): an insert of a second
\* document of the pair fails with a duplicate key error
uniqueIndexAllows(userId, storeId) ==
    \A i \in 1..Len(carts) : ~(carts[i].user = userId /\ carts[i].store = storeId)

\* the locals of a cart request
CartRequest(kind, u, s) ==
    [kind |-> kind, oid |-> 0, rid |-> nreq + 1, user |-> u, store |-> s]

\* the handler holds the cart it loaded and the document it is about to save
ToSave(q, cid, doc) ==
    [pc |-> "cartSave", cid |-> cid, loaded |-> carts[cid], doc |-> doc,
     castError |-> FALSE] @@ q

\* GET /api/cart/:storeId: the findOne of Cart.getOrCreateCart
GetCartStart(r, u, s) ==
    /\ Admit(r)
    /\ LET q == CartRequest("getCart", u, s) IN
       reqs' = [reqs EXCEPT ![r] =
            IF findCart(u, s) # 0 THEN Done(q, 200) ELSE [pc |-> "cartInsert"] @@ q]
    /\ UNCHANGED <<reviews, registered, products, stores, users, orders, coupons, carts, now>>

\* price * quantity of the addons of a line
RECURSIVE addonsPrice(_)
addonsPrice(addons) ==
    IF addons = <<>> THEN 0
    ELSE Head(addons).price * Head(addons).quantity + addonsPrice(Tail(addons))

\* POST /api/cart/:storeId/items: await Product.findOne({ _id, store }), the
\* availability check and the price of the line
AddItemStart(r, u, s, productId, quantity, customizations, addons) ==
    /\ Admit(r)
    /\ LET q == CartRequest("addItem", u, s)
           product == products[productId]
           itemPrice == product.price
                        + SumSeq([i \in 1..Len(customizations) |-> customizations[i].price])
           itemData == [id |-> nreq + 1, product |-> productId, quantity |-> quantity,
                        customizations |-> customizations, addons |-> addons,
                        price |-> itemPrice + addonsPrice(addons),
                        totalPrice |-> (itemPrice + addonsPrice(addons)) * quantity]
       IN reqs' = [reqs EXCEPT ![r] =
            IF product.store # s THEN Done(q, 404)
            ELSE IF ~product.isAvailable THEN Done(q, 400)
            ELSE [pc |-> "cartFind", itemData |-> itemData] @@ q]
    /\ UNCHANGED <<reviews, registered, products, stores, users, orders, coupons, carts, now>>

\* the findOne of Cart.getOrCreateCart in the add-item handler; with a cart found,
\* the synchronous part of cart.addItem
CartFind(r) ==
    /\ reqs[r].pc = "cartFind"
    /\ LET q == reqs[r]
           cid == findCart(q.user, q.store)
       IN reqs' = [reqs EXCEPT ![r] =
            IF cid # 0 THEN ToSave(q, cid, addItem(carts[cid], q.itemData))
            ELSE [pc |-> "cartInsert"] @@ q]
    /\ UNCHANGED <<reviews, registered, products, stores, users, orders, coupons, carts, now, nreq>>

\* the save() of the new cart in Cart.getOrCreateCart
CartInsert(r) ==
    /\ reqs[r].pc = "cartInsert"
    /\ LET q == reqs[r] IN
       IF ~uniqueIndexAllows(q.user, q.store)
       THEN /\ Reply(r, 500)
            /\ UNCHANGED carts
       ELSE /\ carts' = Append(carts, cartTotals(newCart(q.user, q.store)))
            /\ reqs' = [reqs EXCEPT ![r] = [pc |-> "cartCreated", cid |-> Len(carts) + 1] @@ q]
    /\ UNCHANGED <<reviews, registered, products, stores, users, orders, coupons, now, nreq>>

\* the findById of the new cart in Cart.getOrCreateCart; then the 200 response of
\* GET, or the synchronous part of cart.addItem
CartCreated(r) ==
    /\ reqs[r].pc = "cartCreated"
    /\ LET q == reqs[r] IN
       reqs' = [reqs EXCEPT ![r] =
            IF q.kind = "getCart" THEN Done(q, 200)
            ELSE ToSave(q, q.cid, addItem(carts[q.cid], q.itemData))]
    /\ UNCHANGED <<reviews, registered, products, stores, users, orders, coupons, carts, now, nreq>>

\* PUT /api/cart/:storeId/items/:itemId: await Cart.findOne and the synchronous
\* part of cart.updateItemQuantity, which throws when the cart has no such item
UpdateItemStart(r, u, s, itemId, quantity) ==
    /\ Admit(r)
    /\ LET q == CartRequest("updateItem", u, s)
           cid == findCart(u, s)
       IN reqs' = [reqs EXCEPT ![r] =
            IF cid = 0 THEN Done(q, 404)
            ELSE IF itemIndex(carts[cid], itemId) = 0 THEN Done(q, 500)
            ELSE ToSave(q, cid, updateItemQuantity(carts[cid], itemId, quantity))]
    /\ UNCHANGED <<reviews, registered, products, stores, users, orders, coupons, carts, now>>

\* DELETE /api/cart/:storeId/items/:itemId: await Cart.findOne and the synchronous
\* part of cart.removeItem
RemoveItemStart(r, u, s, itemId) ==
    /\ Admit(r)
    /\ LET q == CartRequest("removeItem", u, s)
           cid == findCart(u, s)
       IN reqs' = [reqs EXCEPT ![r] =
            IF cid = 0 THEN Done(q, 404)
            ELSE ToSave(q, cid, removeItem(carts[cid], itemId))]
    /\ UNCHANGED <<reviews, registered, products, stores, users, orders, coupons, carts, now>>

\* POST /api/cart/:storeId/coupon: await Cart.findOne and the check of an empty cart
ApplyCouponStart(r, u, s, couponCode) ==
    /\ Admit(r)
    /\ LET q == CartRequest("applyCoupon", u, s)
           cid == findCart(u, s)
       IN reqs' = [reqs EXCEPT ![r] =
            IF cid = 0 THEN Done(q, 404)
            ELSE IF carts[cid].items = <<>> THEN Done(q, 400)
            ELSE [pc |-> "couponFind", cid |-> cid, loaded |-> carts[cid],
                  couponCode |-> couponCode] @@ q]
    /\ UNCHANGED <<reviews, registered, products, stores, users, orders, coupons, carts, now>>

\* await Coupon.findOne, the store check, canUserUseCoupon on the subtotal of the
\* loaded cart, calculateDiscount and the synchronous part of cart.applyCoupon
ApplyCouponFind(r) ==
    /\ reqs[r].pc = "couponFind"
    /\ LET q == reqs[r]
           c == findCoupon(toUpperCase(q.couponCode))
           cart == q.loaded
       IN reqs' = [reqs EXCEPT ![r] =
            IF c = 0 THEN Done(q, 404)
            ELSE IF /\ coupons[c].applicableStores # {}
                    /\ q.store \notin coupons[c].applicableStores THEN Done(q, 400)
            ELSE IF ~canUserUseCoupon(coupons[c], q.user, cart.subtotal).valid THEN Done(q, 400)
            ELSE [pc |-> "cartSave", castError |-> FALSE,
                  doc |-> applyCoupon(cart, coupons[c],
                            calculateDiscount(coupons[c], cart.subtotal, cart.deliveryFee))]
                 @@ q]
    /\ UNCHANGED <<reviews, registered, products, stores, users, orders, coupons, carts, now, nreq>>

\* DELETE /api/cart/:storeId/coupon: await Cart.findOne and the synchronous part
\* of cart.removeCoupon
RemoveCouponStart(r, u, s) ==
    /\ Admit(r)
    /\ LET q == CartRequest("removeCoupon", u, s)
           cid == findCart(u, s)
       IN reqs' = [reqs EXCEPT ![r] =
            IF cid = 0 THEN Done(q, 404)
            ELSE ToSave(q, cid, removeCoupon(carts[cid]))]
    /\ UNCHANGED <<reviews, registered, products, stores, users, orders, coupons, carts, now>>

\* DELETE /api/cart/:storeId: await Cart.findOne and the synchronous part of
\* cart.clearCart
ClearCartStart(r, u, s) ==
    /\ Admit(r)
    /\ LET q == CartRequest("clearCart", u, s)
           cid == findCart(u, s)
       IN reqs' = [reqs EXCEPT ![r] =
            IF cid = 0 THEN Done(q, 404)
            ELSE ToSave(q, cid, clearCart(carts[cid]))]
    /\ UNCHANGED <<reviews, registered, products, stores, users, orders, coupons, carts, now>>

\* PUT /api/cart/:storeId/delivery-address: await Cart.findOne
DeliveryAddressStart(r, u, s, address) ==
    /\ Admit(r)
    /\ LET q == CartRequest("deliveryAddress", u, s)
           cid == findCart(u, s)
       IN reqs' = [reqs EXCEPT ![r] =
            IF cid = 0 THEN Done(q, 404)
            ELSE [pc |-> "storeFind", cid |-> cid, loaded |-> carts[cid],
                  address |-> address] @@ q]
    /\ UNCHANGED <<reviews, registered, products, stores, users, orders, coupons, carts, now>>

\* calculateDistance(store.location.coordinates.lat, store.location.coordinates.lng,
\* ...): coordinates is the [longitude, latitude] array of the Store schema, its
\* properties lat and lng are undefined, and the distance computed from them is NaN
calculateDistance(s, address) == "NaN"

\* await Store.findById; for a store that exists, cart.deliveryFee =
\* Math.max(2.99, distance * 0.5), which is NaN: the assignment fails to cast, the
\* fee keeps its value and the cast error is held for save(); with no such store
\* the fee is left alone.  Then cart.deliveryAddress = address.
DeliveryAddressStore(r) ==
    /\ reqs[r].pc = "storeFind"
    /\ LET q == reqs[r] IN
       reqs' = [reqs EXCEPT ![r] =
            [pc |-> "cartSave",
             doc |-> [q.loaded EXCEPT !.deliveryAddress = Some(q.address)],
             castError |-> (q.store \in DOMAIN stores
                            /\ calculateDistance(q.store, q.address) = "NaN")] @@ q]
    /\ UNCHANGED <<reviews, registered, products, stores, users, orders, coupons, carts, now, nreq>>

\* await cart.save(): validation (a held cast error rejects the save), the
\* pre-save totals, the write of the modified paths; clearCart answers 200 here
CartSave(r) ==
    /\ reqs[r].pc = "cartSave"
    /\ LET q == reqs[r] IN
       IF q.castError
       THEN /\ Reply(r, 500)
            /\ UNCHANGED carts
       ELSE /\ carts' = [carts EXCEPT ![q.cid] = SaveCart(@, q.loaded, cartTotals(q.doc))]
            /\ reqs' = [reqs EXCEPT ![r] =
                    IF q.kind = "clearCart" THEN Done(q, 200)
                    ELSE [pc |-> "reload", kind |-> q.kind, oid |-> 0, rid |-> q.rid,
                          user |-> q.user, store |-> q.store, cid |-> q.cid]]
    /\ UNCHANGED <<reviews, registered, products, stores, users, orders, coupons, now, nreq>>

\* await Cart.findById(cart._id).populate(...), then the 200 response
CartReload(r) ==
    /\ reqs[r].pc = "reload"
    /\ Reply(r, 200)
    /\ UNCHANGED <<reviews, registered, products, stores, users, orders, coupons, carts, now, nreq>>

----------------------------------------------------------------------------
(* Initial state: the catalogue of the model, no order, no request *)

InitProducts ==
    [p \in ProductIds |->
        IF p = "p1"
        THEN [name |-> "pizza", store |-> "s1", price |-> 10 * Scale,
              discount |-> [isActive |-> FALSE, type |-> "percentage", value |-> 0,
                            startDate |-> Null, endDate |-> Null],
              options |-> <<[name |-> "size",
                             choices |-> <<[name |-> "small", price |-> 0],
                                           [name |-> "large", price |-> 2 * Scale]>>]>>,
              isAvailable |-> TRUE, stock |-> Some(3), totalOrders |-> 0]
        ELSE [name |-> "soda", store |-> "s1", price |-> 2 * Scale,
              discount |-> [isActive |-> TRUE, type |-> "percentage", value |-> 10,
                            startDate |-> Null, endDate |-> Null],
              options |-> <<>>,
              isAvailable |-> TRUE, stock |-> Null, totalOrders |-> 0]]

InitStores ==
    [s \in StoreIds |->
        [owner |-> IF s = "s1" THEN "owner" ELSE "admin",
         isActive |-> TRUE,
         deliveryFee |-> (5 * Scale) \div 2,
         deliveryRadius |-> 5,
         totalOrders |-> 0, totalRevenue |-> 0,
         rating |-> [sum |-> 0, count |-> 0]]]

\* the e-mail address of each user of the model
emailOf(u) ==
    CASE u = "ana" -> "ana@mail.com"
      [] u = "beto" -> "beto@mail.com"
      [] u = "owner" -> "owner@mail.com"
      [] u = "admin" -> "admin@mail.com"
      [] u = "driver" -> "driver@mail.com"

InitUsers == [u \in Users |-> [loyaltyPoints |-> 0, email |-> emailOf(u)]]

\* the coupons of the seed script: WELCOME20 and FREESHIP (which has expired)
InitCoupons ==
    <<[CouponDefaults EXCEPT !.code = "WELCOME20", !.discountType = "percentage",
          !.discountValue = 20, !.maxDiscountAmount = Some(10 * Scale),
          !.minOrderAmount = 25 * Scale, !.maxUsage = Some(1000), !.usageCount = 45],
      [CouponDefaults EXCEPT !.code = "FREESHIP", !.discountType = "freeDelivery",
          !.minOrderAmount = 30 * Scale, !.maxUsagePerUser = 3, !.usageCount = 123,
          !.endDate = 9]>>

Init ==
    /\ products = InitProducts
    /\ stores = InitStores
    /\ users = InitUsers
    /\ orders = <<>>
    /\ coupons = InitCoupons
    /\ carts = <<>>
    /\ reviews = <<>>
    /\ registered = <<>>
    /\ reqs = [r \in Slots |-> Idle]
    /\ nreq = 0
    /\ now = 10

----------------------------------------------------------------------------
(* The requests of the order life cycle, handled one after another *)

OptionInputs == {<<>>, <<[name |-> "size", choice |-> "large"]>>}
Lines(opts) == [productId : ProductIds, quantity : 1..MaxQty, options : opts]
ItemLists(n, opts) == UNION {[1..k -> Lines(opts)] : k \in 1..n}
StatusInputs == StatusEnum \cup {"bogus"}
\* food and delivery of the body: 2, 5, 6 and 2.5
RatingInputs == {2 * RatingScale, 5 * RatingScale, 6 * RatingScale,
                 (5 * RatingScale) \div 2}
FeeInputs == {3 * Scale}
PriceInputs == {12 * Scale}

Next ==
    \/ /\ Open(1)
       /\ \E s \in StoreIds, items \in ItemLists(1, {<<>>}), addr \in {"near", "far"},
             code \in {"", "save5"} : CreateOrderStart(1, "ana", s, items, addr, code)
    \/ CreateOrderItem(1)
    \/ CreateOrderInsert(1)
    \/ CreateOrderStock(1)
    \/ CreateOrderStats(1)
    \/ CreateOrderLoyalty(1)
    \/ /\ Open(1)
       /\ \E u \in Users, oid \in 1..MaxOrders, status \in StatusInputs :
             StatusRead(1, u, oid, status)
    \/ StatusSave(1)
    \/ /\ Open(1)
       /\ \E u \in Users, oid \in 1..MaxOrders : CancelRead(1, u, oid, "late")
    \/ CancelSave(1)
    \/ CancelRestore(1)
    \/ /\ Open(1)
       /\ \E u \in Users, oid \in 1..MaxOrders, food \in RatingInputs,
             delivery \in RatingInputs : RateRead(1, u, oid, food, delivery)
    \/ RateSave(1)
    \/ RateStore(1)
    \/ /\ Open(1)
       /\ \E u \in Users, s \in StoreIds, fee \in FeeInputs : UpdateStore(1, u, s, fee)
    \/ /\ Open(1)
       /\ \E p \in ProductIds, price \in PriceInputs : SetProductPrice(1, p, price)

Spec == Init /\ [][Next]_vars


----------------------------------------------------------------------------
(* The pricing of an order: the first order of an empty collection, over the full
   range of item lists and coupon codes, after catalogue changes *)

CodeInputs == {"", "save5", "WELCOME20", "bogus"}

NextPricing ==
    \/ /\ Open(1) /\ orders = <<>>
       /\ \E s \in StoreIds, items \in ItemLists(MaxLines, OptionInputs),
             addr \in {"near", "far"}, code \in CodeInputs :
             CreateOrderStart(1, "ana", s, items, addr, code)
    \/ CreateOrderItem(1)
    \/ CreateOrderInsert(1)
    \/ CreateOrderStock(1)
    \/ CreateOrderStats(1)
    \/ CreateOrderLoyalty(1)
    \/ /\ Open(1) /\ orders = <<>>
       /\ \E fee \in FeeInputs : UpdateStore(1, "owner", "s1", fee)
    \/ /\ Open(1) /\ orders = <<>>
       /\ \E p \in ProductIds, price \in PriceInputs : SetProductPrice(1, p, price)

SpecPricing == Init /\ [][NextPricing]_vars

----------------------------------------------------------------------------
(* Two checkouts of the same product that interleave at their awaits *)

NextCheckout ==
    \E r \in Slots :
        \/ \E quantity \in 1..MaxQty :
              CreateOrderStart(r, IF r = 1 THEN "ana" ELSE "beto", "s1",
                  <<[productId |-> "p1", quantity |-> quantity, options |-> <<>>]>>,
                  "near", "")
        \/ CreateOrderItem(r)
        \/ CreateOrderInsert(r)
        \/ CreateOrderStock(r)
        \/ CreateOrderStats(r)
        \/ CreateOrderLoyalty(r)

SpecCheckout == Init /\ [][NextCheckout]_vars

----------------------------------------------------------------------------
(* The requests on the carts of one user, handled one after another *)

CustomizationInputs == {<<>>, <<[name |-> "extra cheese", price |-> 298 * Cent]>>}
AddonInputs == {<<>>, <<[name |-> "dip", price |-> 50 * Cent, quantity |-> 2]>>}
\* the customizations and addons of a line of the request
ExtraInputs ==
    {[customizations |-> <<>>, addons |-> <<>>]}
    \cup {[customizations |-> c, addons |-> <<>>] : c \in CustomizationInputs}
    \cup {[customizations |-> <<>>, addons |-> a] : a \in AddonInputs}
CartCodeInputs == {"welcome20", "FREESHIP", "NOPE"}

NextCart ==
    \/ /\ Open(1)
       /\ \E s \in CartStoreIds : GetCartStart(1, "ana", s)
    \/ /\ Open(1)
       /\ \E s \in StoreIds, p \in ProductIds, quantity \in 1..MaxQty, extra \in ExtraInputs :
             AddItemStart(1, "ana", s, p, quantity, extra.customizations, extra.addons)
    \/ CartFind(1)
    \/ CartInsert(1)
    \/ CartCreated(1)
    \/ /\ Open(1)
       /\ \E itemId \in 1..MaxRequests, quantity \in 0..MaxQty :
             UpdateItemStart(1, "ana", "s1", itemId, quantity)
    \/ /\ Open(1)
       /\ \E itemId \in 1..MaxRequests : RemoveItemStart(1, "ana", "s1", itemId)
    \/ /\ Open(1)
       /\ \E s \in StoreIds, code \in CartCodeInputs : ApplyCouponStart(1, "ana", s, code)
    \/ ApplyCouponFind(1)
    \/ /\ Open(1)
       /\ RemoveCouponStart(1, "ana", "s1")
    \/ /\ Open(1)
       /\ ClearCartStart(1, "ana", "s1")
    \/ /\ Open(1)
       /\ \E s \in CartStoreIds : DeliveryAddressStart(1, "ana", s, "near")
    \/ DeliveryAddressStore(1)
    \/ CartSave(1)
    \/ CartReload(1)

SpecCart == Init /\ [][NextCart]_vars

----------------------------------------------------------------------------
(* Coupons: an administrator changes them, users validate them and apply them
   to their carts; the requests are handled one after another *)

\* bodies of PUT /api/coupons/:id
CouponBodies ==
    {[isActive |-> FALSE],
     [usageCount |-> 1000],
     [usedBy |-> <<[user |-> "ana", order |-> 1, discountApplied |-> 5 * Scale]>>],
     [applicableStores |-> {"s1"}],
     [applicableStores |-> {"s2"}],
     [eligibleUsers |-> {"beto"}],
     [startDate |-> 11],
     [endDate |-> 9],
     [startDate |-> 12, endDate |-> 11],
     [minOrderAmount |-> 0, endDate |-> 20]}

AmountInputs == {10 * Scale, 30 * Scale}
StoreIdInputs == {Null} \cup {Some(s) : s \in StoreIds}

NextCoupon ==
    \/ /\ Open(1)
       /\ \E u \in {"admin", "owner"}, c \in 1..Len(coupons), body \in CouponBodies :
             UpdateCouponStart(1, u, c, body)
    \/ UpdateCouponSave(1)
    \/ /\ Open(1)
       /\ \E u \in {"ana", "beto"}, code \in CartCodeInputs, orderAmount \in AmountInputs,
             storeId \in StoreIdInputs : ValidateCoupon(1, u, code, orderAmount, storeId)
    \/ /\ Open(1)
       /\ \E quantity \in 1..MaxQty, customizations \in CustomizationInputs :
             AddItemStart(1, "ana", "s1", "p1", quantity, customizations, <<>>)
    \/ CartFind(1)
    \/ CartInsert(1)
    \/ CartCreated(1)
    \/ /\ Open(1)
       /\ \E code \in CartCodeInputs : ApplyCouponStart(1, "ana", "s1", code)
    \/ ApplyCouponFind(1)
    \/ CartSave(1)
    \/ CartReload(1)

SpecCoupon == Init /\ [][NextCoupon]_vars

----------------------------------------------------------------------------
(* Get-cart and add-item requests that interleave at their awaits *)

NextCartRace ==
    \E r \in Slots :
        \/ \E u \in {"ana", "beto"} : GetCartStart(r, u, "s1")
        \/ \E u \in {"ana", "beto"} : AddItemStart(r, u, "s1", "p1", 1, <<>>, <<>>)
        \/ CartFind(r)
        \/ CartInsert(r)
        \/ CartCreated(r)
        \/ CartSave(r)
        \/ CartReload(r)

SpecCartRace == Init /\ [][NextCartRace]_vars

----------------------------------------------------------------------------
(* Ratings and reviews of a delivered order, handled one after another *)

ReviewRatingInputs == {4 * RatingScale, 7 * RatingScale, (5 * RatingScale) \div 2}

NextRating ==
    \/ /\ Open(1)
       /\ \E items \in ItemLists(1, {<<>>}) :
             CreateOrderStart(1, "ana", "s1", items, "near", "")
    \/ CreateOrderItem(1)
    \/ CreateOrderInsert(1)
    \/ CreateOrderStock(1)
    \/ CreateOrderStats(1)
    \/ CreateOrderLoyalty(1)
    \/ /\ Open(1)
       /\ \E oid \in 1..MaxOrders : StatusRead(1, "owner", oid, "delivered")
    \/ StatusSave(1)
    \/ /\ Open(1)
       /\ \E u \in {"ana", "beto"}, oid \in 1..MaxOrders, food \in RatingInputs,
             delivery \in RatingInputs : RateRead(1, u, oid, food, delivery)
    \/ RateSave(1)
    \/ RateStore(1)
    \/ /\ Open(1)
       /\ \E u \in {"ana", "beto"}, oid \in 1..MaxOrders, s \in StoreIds,
             rating \in ReviewRatingInputs : ReviewCreateStart(1, u, oid, s, rating)
    \/ /\ Open(1)
       /\ \E u \in {"ana", "beto"}, id \in 1..MaxOrders, rating \in ReviewRatingInputs :
             ReviewUpdateStart(1, u, id, rating)
    \/ /\ Open(1)
       /\ \E u \in {"ana", "admin"}, id \in 1..MaxOrders : ReviewDeleteStart(1, u, id)
    \/ /\ Open(1)
       /\ \E u \in {"ana", "beto"}, id \in 1..MaxOrders : ReviewReportStart(1, u, id)

SpecRating == Init /\ [][NextRating]_vars

----------------------------------------------------------------------------
(* Orders of stores that are deactivated or change their delivery radius,
   handled one after another *)

RadiusInputs == {1, 20}

NextDelivery ==
    \/ /\ Open(1)
       /\ \E s \in StoreIds \cup {"s9"}, items \in ItemLists(1, {<<>>}),
             addr \in {"near", "far"} : CreateOrderStart(1, "ana", s, items, addr, "")
    \/ CreateOrderItem(1)
    \/ CreateOrderInsert(1)
    \/ CreateOrderStock(1)
    \/ CreateOrderStats(1)
    \/ CreateOrderLoyalty(1)
    \/ /\ Open(1)
       /\ \E u \in {"owner", "ana"}, s \in StoreIds \cup {"s9"} : DeleteStore(1, u, s)
    \/ /\ Open(1)
       /\ \E u \in {"owner", "admin"}, s \in StoreIds, radius \in RadiusInputs :
             UpdateStoreRadius(1, u, s, radius)

SpecDelivery == Init /\ [][NextDelivery]_vars

----------------------------------------------------------------------------
(* Register and create-coupon requests that interleave at their awaits *)

EmailInputs == {"zoe@mail.com", "Zoe@mail.com", "ANA@mail.com", "zoe.mail.com"}
NewCodeInputs == {"summer", "SUMMER", "freeship", "ab"}

NextUnique ==
    \/ \E r \in Slots :
        /\ Open(r)
        /\ \E email \in EmailInputs, role \in {"", "admin"} : RegisterStart(r, email, role)
    \/ \E r \in Slots : RegisterCreate(r)
    \/ \E r \in Slots :
        /\ Open(r)
        /\ \E u \in {"admin", "owner", "ana"}, code \in NewCodeInputs, endDate \in {5, 20} :
              CreateCouponStart(r, u, code, 5, endDate)
    \/ \E r \in Slots : CreateCouponStores(r)
    \/ \E r \in Slots : CreateCouponSave(r)

SpecUnique == Init /\ [][NextUnique]_vars

----------------------------------------------------------------------------
(* Rate requests that interleave at their awaits, on two delivered orders *)

\* an order of ana for one p1 at store s1, as POST /api/orders stores it and
\* PUT /api/orders/:id/status with "delivered" leaves it
DeliveredOrder ==
    LET p == InitProducts["p1"]
        item == [productId |-> "p1", quantity |-> 1, options |-> <<>>]
        q == [user |-> "ana", store |-> "s1", addr |-> "near", couponCode |-> "",
              orderItems |-> <<orderItem("p1", p, item)>>,
              subtotal |-> totalItemPrice(p, item),
              deliveryFee |-> InitStores["s1"].deliveryFee]
    IN updateStatus(newOrder(q), "delivered")

\* the collections after two such orders were created and delivered
InitDelivered ==
    /\ now = 10
    /\ orders = <<DeliveredOrder, DeliveredOrder>>
    /\ products = [InitProducts EXCEPT !["p1"].stock = Inc(@, -2),
                                       !["p1"].totalOrders = @ + 2]
    /\ stores = [InitStores EXCEPT !["s1"].totalOrders = @ + 2,
                    !["s1"].totalRevenue = @ + 2 * DeliveredOrder.pricing.total]
    /\ users = [InitUsers EXCEPT !["ana"].loyaltyPoints =
                    @ + 2 * (DeliveredOrder.pricing.total \div (10 * Scale))]
    /\ coupons = InitCoupons
    /\ carts = <<>>
    /\ reviews = <<>>
    /\ registered = <<>>
    /\ reqs = [r \in Slots |-> Idle]
    /\ nreq = 0

NextRateRace ==
    \/ \E r \in Slots :
        /\ Open(r)
        /\ \E u \in {"ana", "beto"}, oid \in 1..MaxOrders,
              food \in {2 * RatingScale, 5 * RatingScale} :
              RateRead(r, u, oid, food, 5 * RatingScale)
    \/ \E r \in Slots : RateSave(r)
    \/ \E r \in Slots : RateStore(r)

SpecRateRace == InitDelivered /\ [][NextRateRace]_vars

----------------------------------------------------------------------------
(* The discount of a coupon that POST /api/coupons has stored, as the validate
   route and the cart's coupon route compute it *)

\* the validators of POST /api/coupons on the discount fields of the body
\* (isIn on discountType, isFloat({ min: 0 }) on discountValue; maxDiscountAmount
\* has no validator) and the schema's enum and min: 0 on the same paths
discountFieldsValid(couponData) ==
    /\ couponData.discountType \in {"percentage", "fixed", "freeDelivery"}
    /\ couponData.discountValue >= 0

DiscountTypeInputs == {"percentage", "fixed", "freeDelivery", "bogus"}
DiscountValueInputs == {-1, 0, 5, 50, 150}
MaxDiscountInputs == {Null, Some(0), Some(3 * Scale), Some(-2 * Scale)}
OrderAmountInputs == {0, 10 * Scale, 2596 * Cent}

\* the coupons SUMMER that an administrator's create request stores
CreatedCoupons ==
    {couponData \in
        {[CouponDefaults EXCEPT !.code = "SUMMER", !.discountType = type,
                                !.discountValue = value, !.maxDiscountAmount = maxAmount] :
            type \in DiscountTypeInputs, value \in DiscountValueInputs,
            maxAmount \in MaxDiscountInputs} :
        discountFieldsValid(couponData)}

InitDiscount ==
    /\ products = InitProducts
    /\ stores = InitStores
    /\ users = InitUsers
    /\ orders = <<>>
    /\ \E couponData \in CreatedCoupons : coupons = <<couponData>>
    /\ carts = <<>>
    /\ reviews = <<>>
    /\ registered = <<>>
    /\ reqs = [r \in Slots |-> Idle]
    /\ nreq = 0
    /\ now = 10

NextDiscount ==
    \/ /\ Open(1)
       /\ \E orderAmount \in OrderAmountInputs :
             ValidateCoupon(1, "ana", "summer", orderAmount, Null)
    \/ /\ Open(1)
       /\ \E quantity \in 1..MaxQty, customizations \in CustomizationInputs :
             AddItemStart(1, "ana", "s1", "p1", quantity, customizations, <<>>)
    \/ CartFind(1)
    \/ CartInsert(1)
    \/ CartCreated(1)
    \/ /\ Open(1)
       /\ ApplyCouponStart(1, "ana", "s1", "summer")
    \/ ApplyCouponFind(1)
    \/ CartSave(1)
    \/ CartReload(1)

SpecDiscount == InitDiscount /\ [][NextDiscount]_vars

----------------------------------------------------------------------------
(* A cart and an order of the same lines: the owner sets the store's delivery
   fee, the user fills a cart and checks out; handled one after another *)

\* deliveryInfo.deliveryFee of the body of PUT /api/stores/:id: free delivery
FreeFeeInputs == {0}

NextAgree ==
    \/ /\ Open(1)
       /\ \E fee \in FreeFeeInputs : UpdateStore(1, "owner", "s1", fee)
    \/ /\ Open(1)
       /\ \E p \in ProductIds, quantity \in 1..MaxQty :
             AddItemStart(1, "ana", "s1", p, quantity, <<>>, <<>>)
    \/ CartFind(1)
    \/ CartInsert(1)
    \/ CartCreated(1)
    \/ CartSave(1)
    \/ CartReload(1)
    \/ /\ Open(1)
       /\ \E items \in ItemLists(1, {<<>>}) :
             CreateOrderStart(1, "ana", "s1", items, "near", "")
    \/ CreateOrderItem(1)
    \/ CreateOrderInsert(1)
    \/ CreateOrderStock(1)
    \/ CreateOrderStats(1)
    \/ CreateOrderLoyalty(1)

SpecAgree == Init /\ [][NextAgree]_vars

----------------------------------------------------------------------------
(* The order life cycle *)

Chain == <<"pending", "confirmed", "preparing", "ready", "on_way", "delivered">>
InChain(s) == \E i \in 1..Len(Chain) : Chain[i] = s
Rank(s) == CHOOSE i \in 1..Len(Chain) : Chain[i] = s

\* a change of status from a to b that the progression allows: b is a side exit,
\* or b is a later status of the chain than a
Progresses(a, b) ==
    \/ b \in {"cancelled", "refunded"}
    \/ InChain(a) /\ InChain(b) /\ Rank(b) > Rank(a)

\* C1: the status of an order never changes to an earlier status of the chain, and
\* a delivered, cancelled or refunded order never returns to the chain
C1_StatusOnlyProgresses ==
    [][\A o \in 1..Len(orders) :
         orders'[o].status # orders[o].status
            => Progresses(orders[o].status, orders'[o].status)]_vars

\* the part of an order that is the priced snapshot
Snapshot(o) == <<o.customer, o.store, o.items, o.pricing>>

\* C2: once stored, an order's customer, store, items and pricing never change,
\* whatever request or catalogue change follows
C2_SnapshotImmutable ==
    [][\A o \in 1..Len(orders) : Snapshot(orders'[o]) = Snapshot(orders[o])]_vars

\* C2 witness: an order of p1 at 10 that has been delivered and rated, or cancelled
\* by its customer, while p1 now costs 12 or the store's fee has changed
C2_Witness ==
    \E o \in 1..Len(orders) :
        /\ orders[o].items[1].product = "p1"
        /\ orders[o].items[1].price = 10 * Scale
        /\ \/ orders[o].rating.overall > 0
           \/ orders[o].cancellationReason # ""
           \/ orders[o].status = "delivered"
        /\ \/ products["p1"].price = 12 * Scale
           \/ stores[orders[o].store].deliveryFee # orders[o].pricing.deliveryFee

\* C6: an order becomes cancelled only from pending or confirmed, by whichever
\* handler, and a cancel request answered 400 changes neither orders nor products
C6_CancelOnlyEarly ==
    [][/\ \A o \in 1..Len(orders) :
            orders'[o].status = "cancelled" /\ orders[o].status # "cancelled"
                => canBeCancelled(orders[o])
       /\ \A r \in Slots :
            reqs'[r] # reqs[r] /\ reqs'[r].pc = "done" /\ reqs'[r].kind = "cancel"
            /\ reqs'[r].res = 400
                => orders' = orders /\ products' = products]_vars

\* the stock of every product that has a numeric stock is not negative
StockNonNegative == \A p \in ProductIds : products[p].stock # Null => products[p].stock[1] >= 0

RECURSIVE QtyIn(_, _)
QtyIn(items, p) ==
    IF items = <<>> THEN 0
    ELSE (IF Head(items).product = p THEN Head(items).quantity ELSE 0) + QtyIn(Tail(items), p)

RECURSIVE QtyOrdered(_, _)
QtyOrdered(os, p) == IF os = <<>> THEN 0 ELSE QtyIn(Head(os).items, p) + QtyOrdered(Tail(os), p)

RECURSIVE ChosenPrice(_, _)
ChosenPrice(p, options) ==
    IF options = <<>> THEN 0
    ELSE LET hit == {c \in {<<i, j>> : i \in 1..Len(p.options), j \in 1..2} :
                        /\ c[2] <= Len(p.options[c[1]].choices)
                        /\ p.options[c[1]].name = Head(options).name
                        /\ p.options[c[1]].choices[c[2]].name = Head(options).choice}
         IN (IF hit = {} THEN 0
             ELSE LET c == CHOOSE c \in hit : TRUE IN p.options[c[1]].choices[c[2]].price)
            + ChosenPrice(p, Tail(options))

RECURSIVE LinesTotal(_)
LinesTotal(items) ==
    IF items = <<>> THEN 0
    ELSE LET p == products[Head(items).product] IN
         (finalPrice(p) + ChosenPrice(p, Head(items).options)) * Head(items).quantity
         + LinesTotal(Tail(items))

\* the pricing rules of a stored order o, against the catalogue it was priced from
PricedByTheRules(o) ==
    LET g == o.pricing IN
    /\ g.subtotal = LinesTotal(o.items)
    /\ g.deliveryFee = stores[o.store].deliveryFee
    /\ 100 * g.serviceFee = 5 * g.subtotal
    /\ 100 * g.tax = 10 * g.subtotal
    /\ o.coupon = Null => g.discount = 0
    /\ o.coupon # Null /\ o.coupon[1].type = "percentage"
          => 100 * g.discount = g.subtotal * o.coupon[1].discount
    /\ o.coupon # Null /\ o.coupon[1].type = "fixed" => g.discount = o.coupon[1].discount * Scale
    /\ g.total >= 0
    /\ g.total >= g.subtotal + g.deliveryFee + g.serviceFee + g.tax - g.discount
    /\ g.total \in {0, g.subtotal + g.deliveryFee + g.serviceFee + g.tax - g.discount}

\* C5: the order that Order.create stores is priced by the rules: subtotal, delivery
\* fee, 5% service fee, 10% tax, coupon discount, and a total clamped at 0
C5_OrderPricedByRules ==
    [][Len(orders') = Len(orders) + 1 => PricedByTheRules(orders'[Len(orders')])]_vars

\* C5 witness: a stored order of two lines, the first with a priced option, priced
\* with a percentage coupon
C5_Witness ==
    \E o \in 1..Len(orders) :
        /\ Len(orders[o].items) = 2
        /\ orders[o].items[1].options # <<>>
        /\ orders[o].pricing.discount > 0
        /\ orders[o].coupon[1].type = "percentage"
        /\ orders[o].pricing.total > 0

\* the order o was stored by a create request that has been answered with 201
Answered201(o) ==
    \E r \in Slots : reqs[r] = Done([kind |-> "create", oid |-> o], 201)

\* the orders of customer u that got a discount from the coupon code
DiscountedOrders(u, code) ==
    {o \in 1..Len(orders) :
        /\ orders[o].customer = u
        /\ orders[o].coupon # Null
        /\ orders[o].coupon[1].code = code
        /\ orders[o].pricing.discount > 0}

----------------------------------------------------------------------------
(* Carts and coupons *)

\* the requests that hold the cart they loaded or created
HoldsCart(q) == q.pc \in {"cartCreated", "cartSave", "couponFind", "storeFind", "reload"}

\* C7: there is at most one Cart document for each user and store, also when
\* get-cart and add-item requests interleave inside getOrCreateCart, and the cart a
\* request of a user for a store works on is the document of that user and store
C7_OneCartPerUserAndStore ==
    /\ \A i, j \in 1..Len(carts) :
          carts[i].user = carts[j].user /\ carts[i].store = carts[j].store => i = j
    /\ \A r \in Slots :
          HoldsCart(reqs[r]) => /\ carts[reqs[r].cid].user = reqs[r].user
                                /\ carts[reqs[r].cid].store = reqs[r].store

\* C7 witness: two requests of one user were inside getOrCreateCart together: one
\* created the cart, the other's insert was refused, and an item has been added
C7_Witness ==
    /\ \E i \in 1..Len(carts) : carts[i].user = "ana" /\ carts[i].items # <<>>
    /\ \E r \in Slots : reqs[r].pc = "done" /\ reqs[r].res = 500

Abs(x) == IF x >= 0 THEN x ELSE -x

\* the totals of a stored cart: subtotal the sum of the lines, tax 10% and service
\* fee 2% of the subtotal to the nearest cent, total the sum less the discount to
\* the nearest cent
CartTotalsHold(c) ==
    /\ c.subtotal = SumSeq([i \in 1..Len(c.items) |-> c.items[i].totalPrice])
    /\ c.tax % Cent = 0 /\ 2 * Abs(10 * c.tax - c.subtotal) <= 10 * Cent
    /\ c.serviceFee % Cent = 0 /\ 2 * Abs(50 * c.serviceFee - c.subtotal) <= 50 * Cent
    /\ c.total % Cent = 0
    /\ 2 * Abs(c.total - (c.subtotal + c.tax + c.deliveryFee + c.serviceFee - c.discount))
          <= Cent

WithinLimits(c, u, amount) ==
    /\ c.isActive
    /\ c.startDate <= now /\ now <= c.endDate
    /\ c.maxUsage = Null \/ c.usageCount < c.maxUsage[1]
    /\ Cardinality({e \in DOMAIN c.usedBy : c.usedBy[e].user = u}) < c.maxUsagePerUser
    /\ amount >= c.minOrderAmount
    /\ c.eligibleUsers = {} \/ u \in c.eligibleUsers

\* the store limit of coupon c for a request that names store s
StoreAllowed(c, s) == c.applicableStores = {} \/ s \in c.applicableStores

\* the coupons of a code, whatever its case
CouponsOfCode(code) ==
    {c \in 1..Len(coupons) :
        coupons[c].code = code \/ (code = "welcome20" /\ coupons[c].code = "WELCOME20")}

\* a step in which a request is accepted is within the limits, and a rejected
\* request leaves the carts alone; a validate request that names no store is held
\* to the store limit only if storeless is FALSE
AcceptedWithinLimits(storeless) ==
    /\ \A r \in Slots :
        /\ (/\ reqs'[r] # reqs[r] /\ reqs'[r].pc = "done"
            /\ reqs'[r].kind = "validate" /\ reqs'[r].res = 200)
              => \E c \in CouponsOfCode(reqs'[r].code) :
                    /\ WithinLimits(coupons[c], reqs'[r].user, reqs'[r].orderAmount)
                    /\ IF reqs'[r].storeId = Null
                       THEN storeless \/ coupons[c].applicableStores = {}
                       ELSE StoreAllowed(coupons[c], reqs'[r].storeId[1])
        /\ (reqs[r].pc = "couponFind" /\ reqs'[r].pc = "cartSave")
              => \E c \in CouponsOfCode(reqs[r].couponCode) :
                    /\ WithinLimits(coupons[c], reqs[r].user, carts[reqs[r].cid].subtotal)
                    /\ StoreAllowed(coupons[c], reqs[r].store)
        /\ (/\ reqs'[r] # reqs[r] /\ reqs'[r].pc = "done"
            /\ reqs'[r].kind \in {"validate", "applyCoupon"} /\ reqs'[r].res # 200)
              => carts' = carts
    /\ \A i \in 1..Len(carts) :
          (/\ i <= Len(carts') /\ carts'[i].appliedCoupon # Null
           /\ \/ carts'[i].appliedCoupon # carts[i].appliedCoupon
              \/ carts'[i].discount # carts[i].discount)
              => \E r \in Slots : /\ reqs[r].pc = "cartSave" /\ reqs[r].kind = "applyCoupon"
                                  /\ reqs[r].cid = i

\* C9: a coupon is accepted by the validate route and by the cart's coupon route
\* only when it is active, inside its dates, below its usage limit and the user's
\* limit, the amount reaches its minimum, the user is eligible and, when the
\* request names a store, the store is applicable; a rejected request leaves the
\* carts unchanged, and only an accepted request sets a cart's coupon
C9_CouponAcceptedWithinLimits == [][AcceptedWithinLimits(TRUE)]_vars

\* C9 with the store limit required of every accepted request, a validate request
\* that names no store included: such a request must not accept a coupon that is
\* restricted to stores
C9_StoreLimitAlways == [][AcceptedWithinLimits(FALSE)]_vars

\* C9 witness: a coupon restricted to stores has been applied to the cart of a
\* store it is applicable to
C9_Witness ==
    \E i \in 1..Len(carts), c \in 1..Len(coupons) :
        /\ carts[i].appliedCoupon # Null
        /\ carts[i].appliedCoupon[1].code = coupons[c].code
        /\ carts[i].discount > 0
        /\ coupons[c].applicableStores = {carts[i].store}

----------------------------------------------------------------------------
(* Ratings and reviews *)

\* a stored rating value is a whole number from 1 to 5
WholeRating(v) == v % RatingScale = 0 /\ v >= 1 * RatingScale /\ v <= 5 * RatingScale

\* n is (food + delivery) / 2 rounded to the nearest whole number, halves up
IsRoundedMean(n, food, delivery) ==
    /\ n % RatingScale = 0
    /\ 2 * n - RatingScale <= food + delivery
    /\ food + delivery < 2 * n + RatingScale

\* C11: every stored order rating (food, delivery, overall) and every stored
\* review rating is a whole number in 1..5, overall is the rounded mean of food
\* and delivery, and every store's average rating is 0 while it has no rating
\* and within 1..5 afterwards
C11_RatingsInRange ==
    /\ \A o \in 1..Len(orders) :
        orders[o].rating.overall # 0 =>
            /\ WholeRating(orders[o].rating.food)
            /\ WholeRating(orders[o].rating.delivery)
            /\ WholeRating(orders[o].rating.overall)
            /\ IsRoundedMean(orders[o].rating.overall, orders[o].rating.food,
                             orders[o].rating.delivery)
    /\ \A i \in 1..Len(reviews) : WholeRating(reviews[i].rating)
    /\ \A s \in StoreIds :
        LET rating == stores[s].rating IN
        IF rating.count = 0 THEN rating.sum = 0
        ELSE /\ rating.sum >= 1 * RatingScale * rating.count
             /\ rating.sum <= 5 * RatingScale * rating.count

----------------------------------------------------------------------------
(* Delivery radius *)

\* the store named by a request exists and is active
StoreFound(s) == s \in DOMAIN stores /\ stores[s].isActive

\* the address is no farther from the store than its delivery radius (km)
WithinRadius(s, addr) == distanceFrom(s, addr) <= stores[s].deliveryRadius * 1000

\* slot r takes up a create-order request in this step
CreateArrives(r) ==
    /\ reqs[r].pc \in {"idle", "done"}
    /\ nreq' = nreq + 1
    /\ reqs'[r].kind = "create"

\* C12: a create-order request for a missing or inactive store is answered 404
\* and one for an address outside the store's radius 400, neither storing an
\* order; every order that is stored belongs to an existing, active store and
\* has a delivery address within that store's radius
DeliversWithinRadius ==
    /\ CreateArrives(1) =>
        LET q == reqs'[1] IN
        /\ orders' = orders
        /\ ~StoreFound(q.store) => q.pc = "done" /\ q.res = 404
        /\ (StoreFound(q.store) /\ ~WithinRadius(q.store, q.addr)) =>
                q.pc = "done" /\ q.res = 400
    /\ Len(orders') > Len(orders) =>
        LET o == orders'[Len(orders')] IN
        StoreFound(o.store) /\ WithinRadius(o.store, o.deliveryAddress)

C12_DeliversWithinRadius == [][DeliversWithinRadius]_vars

\* C12 witness: after an order was stored the store's radius shrank, and the next
\* request for the same address was turned away with 400
C12_Witness ==
    /\ Len(orders) >= 1
    /\ reqs[1].pc = "done" /\ reqs[1].kind = "create" /\ reqs[1].res = 400
    /\ "addr" \in DOMAIN reqs[1]
    /\ reqs[1].addr = orders[1].deliveryAddress
    /\ reqs[1].store = orders[1].store

----------------------------------------------------------------------------
(* Uniqueness *)

\* the e-mail addresses of the User documents, one entry per document
UserEmails ==
    [i \in 1..Len(registered) |-> registered[i].email]

\* C13: no two User documents have the same e-mail address and no two Coupon
\* documents have the same code, and every stored code is upper case
C13_EmailAndCodeUnique ==
    /\ \A i, j \in 1..Len(registered) : i # j => UserEmails[i] # UserEmails[j]
    /\ \A i \in 1..Len(registered), u \in Users : UserEmails[i] # users[u].email
    /\ \A u, v \in Users : u # v => users[u].email # users[v].email
    /\ \A i, j \in 1..Len(coupons) :
        i # j => toUpperCase(coupons[i].code) # toUpperCase(coupons[j].code)
    /\ \A i \in 1..Len(coupons) : coupons[i].code = toUpperCase(coupons[i].code)

\* C13 witness: two register requests for one address both passed the existence
\* check; one inserted the user, the other was refused by the index; and a coupon
\* was created
C13_Witness ==
    /\ Len(registered) = 1
    /\ \E r \in Slots :
        reqs[r].pc = "done" /\ reqs[r].kind = "register" /\ reqs[r].res = 500
    /\ Len(coupons) > Len(InitCoupons)

----------------------------------------------------------------------------
(* Who may update an order's status *)

\* the requester is an admin or the owner of the order's store
OwnerOrAdmin(u, o) == RoleOf(u) = "admin" \/ stores[o.store].owner = u

\* the fields of an order that a status update writes
StatusFields(o) == <<o.status, o.timing, o.loyaltyPointsEarned>>

\* C15: a status request changes an order only when its requester is an admin or
\* the owner of the order's store; a status request of anyone else for an order
\* that exists is answered 403
StatusByOwnerOrAdmin ==
    \A r \in Slots :
        /\ (/\ reqs[r].pc = "statusSave"
            /\ StatusFields(orders'[reqs[r].oid]) # StatusFields(orders[reqs[r].oid]))
                => OwnerOrAdmin(reqs[r].user, orders[reqs[r].oid])
        /\ (/\ reqs[r].pc \in {"idle", "done"}
            /\ reqs'[r].pc = "statusSave")
                => OwnerOrAdmin(reqs'[r].user, orders[reqs'[r].oid])

C15_StatusByOwnerOrAdmin == [][StatusByOwnerOrAdmin]_vars

----------------------------------------------------------------------------
(* Stock and cancelled orders *)

\* the orders that are not cancelled
LiveOrders == SelectSeq(orders, LAMBDA o : o.status # "cancelled")

\* C16: the stock taken by an order is given back when the order is cancelled, by
\* whichever endpoint, and only once: while no request is being handled, the
\* numeric stock of a product is its stock before any order less the quantities
\* ordered by the orders that are not cancelled
C16_CancelRestoresStock ==
    reqs[1].pc \in {"idle", "done"} =>
        \A p \in ProductIds :
            InitProducts[p].stock # Null =>
                products[p].stock = Some(InitProducts[p].stock[1] - QtyOrdered(LiveOrders, p))

----------------------------------------------------------------------------
(* Products without a stock count *)

\* the product of the line that create-order request q is working on
LineProduct(q) == products[q.items[q.i].productId]

\* C17: a product whose stock is null is unlimited: a line of an available product
\* with null stock passes the stock check of create-order whatever its quantity,
\* the stock step of that line does not fail the request, and the stock is null
\* afterwards
NullStockUnlimited ==
    \A r \in Slots :
        /\ (/\ reqs[r].pc = "items"
            /\ LineProduct(reqs[r]).stock = Null
            /\ LineProduct(reqs[r]).isAvailable
            /\ LineProduct(reqs[r]).store = reqs[r].store
            /\ reqs[r].items[reqs[r].i].quantity >= 1)
                => reqs'[r].pc # "done"
        /\ (/\ reqs[r].pc = "stock"
            /\ LineProduct(reqs[r]).stock = Null)
                => /\ ~(reqs'[r].pc = "done" /\ reqs'[r].res \in {400, 404, 500})
                   /\ products'[reqs[r].items[reqs[r].i].productId].stock = Null

C17_NullStockUnlimited == [][NullStockUnlimited]_vars

----------------------------------------------------------------------------
(* Order creation as a whole *)

\* nothing of what a create-order request writes has been written
NothingWritten ==
    /\ orders = <<>>
    /\ \A p \in ProductIds :
        /\ products[p].stock = InitProducts[p].stock
        /\ products[p].totalOrders = InitProducts[p].totalOrders
    /\ \A s \in StoreIds :
        /\ stores[s].totalOrders = InitStores[s].totalOrders
        /\ stores[s].totalRevenue = InitStores[s].totalRevenue
    /\ \A u \in Users : users[u].loyaltyPoints = InitUsers[u].loyaltyPoints

\* all that a create-order request writes has been written for the one order o
AllWritten(o) ==
    /\ Len(orders) = 1
    /\ \A p \in ProductIds :
        /\ products[p].stock =
                IF InitProducts[p].stock = Null THEN Null
                ELSE Some(InitProducts[p].stock[1] - QtyIn(o.items, p))
        /\ products[p].totalOrders = InitProducts[p].totalOrders + QtyIn(o.items, p)
    /\ \A s \in StoreIds :
        /\ stores[s].totalOrders =
                InitStores[s].totalOrders + (IF s = o.store THEN 1 ELSE 0)
        /\ stores[s].totalRevenue =
                InitStores[s].totalRevenue + (IF s = o.store THEN o.pricing.total ELSE 0)
    /\ \A u \in Users :
        users[u].loyaltyPoints =
            InitUsers[u].loyaltyPoints +
                (IF u = o.customer THEN o.pricing.total \div (10 * Scale) ELSE 0)

----------------------------------------------------------------------------
(* Rating an order once *)

\* the orders of store s that carry a rating
RatedOrders(s) ==
    {o \in 1..Len(orders) : orders[o].store = s /\ orders[o].rating.overall # 0}

\* C19: a rate request gets past the checks only for the order's customer and a
\* delivered order without an overall rating; and once every rate request has
\* been answered, the rating count of each store is the number of its rated
\* orders, each order having added to it at most once
RatedOnce ==
    /\ \A r \in Slots :
        (reqs[r].pc \in {"idle", "done"} /\ reqs'[r].pc = "rateSave") =>
            LET o == orders[reqs'[r].oid] IN
            /\ o.customer = reqs'[r].user
            /\ o.status = "delivered"
            /\ o.rating.overall = 0
    /\ (\A r \in Slots : reqs'[r].pc \in {"idle", "done"}) =>
        \A s \in StoreIds : stores'[s].rating.count = Cardinality(RatedOrders(s)')

C19_RatedOnce == [][RatedOnce]_vars

----------------------------------------------------------------------------
(* The lines of a cart *)

\* two lines ask for the same product with the same customizations and addons
EqualLines(a, b) ==
    /\ a.product = b.product
    /\ a.customizations = b.customizations
    /\ a.addons = b.addons

\* C20: every line of a stored cart has a quantity of at least 1 and a total of
\* price times quantity; no cart holds two lines of the same product with equal
\* customizations and addons, since adding such a line adds to the quantity of
\* the line that is there; and updating a line to quantity 0 removes it
C20_CartLinesWellFormed ==
    \A c \in 1..Len(carts) :
        LET items == carts[c].items IN
        /\ \A i \in 1..Len(items) :
            /\ items[i].quantity >= 1
            /\ items[i].totalPrice = items[i].price * items[i].quantity
            /\ itemIndex(updateItemQuantity(carts[c], items[i].id, 0), items[i].id) = 0
        /\ \A i, j \in 1..Len(items) : i # j => ~EqualLines(items[i], items[j])

----------------------------------------------------------------------------
(* The discount of a cart *)

\* the discount the coupon of code gives on the cart's subtotal and delivery fee
\* is the cart's discount, and the subtotal reaches the coupon's minimum
DiscountOf(cart, code) ==
    \E c \in 1..Len(coupons) :
        /\ coupons[c].code = code
        /\ cart.discount = calculateDiscount(coupons[c], cart.subtotal, cart.deliveryFee)
        /\ cart.subtotal >= coupons[c].minOrderAmount

\* C21: the discount of every stored cart is the amount calculateDiscount gives
\* for the applied coupon on the cart's current subtotal and delivery fee, 0
\* without a coupon; the applied coupon's minimum order amount is met by the
\* current subtotal; and the total is not negative
C21_DiscountTracksContents ==
    \A i \in 1..Len(carts) :
        /\ IF carts[i].appliedCoupon = Null THEN carts[i].discount = 0
           ELSE DiscountOf(carts[i], carts[i].appliedCoupon[1].code)
        /\ carts[i].total >= 0

----------------------------------------------------------------------------
(* The amount of a discount *)

\* d is amount e to the nearest cent
ToTheCent(d, e) == d % Cent = 0 /\ 2 * Abs(d - e) <= Cent

\* d is the discount of coupon c on an order amount and a delivery fee: for a
\* percentage the smaller of the percentage of the amount and the coupon's
\* maximum, for a fixed coupon the smaller of its value and the amount, both
\* between 0 and the amount; for free delivery the delivery fee
DiscountBounded(c, orderAmount, deliveryFee, d) ==
    CASE c.discountType = "percentage" ->
            LET percentage == (orderAmount * c.discountValue) \div 100 IN
            /\ 0 <= d /\ d <= orderAmount
            /\ ToTheCent(d, IF c.maxDiscountAmount = Null THEN percentage
                            ELSE Min(percentage, c.maxDiscountAmount[1]))
      [] c.discountType = "fixed" ->
            /\ 0 <= d /\ d <= orderAmount
            /\ ToTheCent(d, Min(c.discountValue * Scale, orderAmount))
      [] c.discountType = "freeDelivery" -> ToTheCent(d, deliveryFee)

\* C22: the discount that calculateDiscount returns for a coupon the create
\* request accepts and an order amount of 0 or more, in the answer of the
\* validate route and in the cart the coupon is applied to, is between 0 and the
\* order amount and the smaller of the two amounts for a percentage or fixed
\* coupon, and the delivery fee for a free-delivery coupon
C22_DiscountWithinAmount ==
    \A r \in Slots :
        /\ (reqs[r].pc = "done" /\ reqs[r].kind = "validate" /\ reqs[r].res = 200)
              => DiscountBounded(coupons[1], reqs[r].orderAmount, 0, reqs[r].discountAmount)
        /\ (reqs[r].pc = "cartSave" /\ reqs[r].kind = "applyCoupon")
              => DiscountBounded(coupons[1], reqs[r].loaded.subtotal,
                                 reqs[r].loaded.deliveryFee, reqs[r].doc.discount)

----------------------------------------------------------------------------
(* The dates of a coupon *)

\* C23: the end date of every stored coupon is after its start date, after any
\* create and update request, also an update whose body carries only one of
\* the two dates
C23_EndAfterStart ==
    \A c \in 1..Len(coupons) : coupons[c].endDate > coupons[c].startDate

----------------------------------------------------------------------------
(* The pricing of a cart and of an order *)

\* a cart and an order of one store with the same lines (product, unit price
\* and quantity), the same delivery fee and the same discount
SamePurchase(cart, order) ==
    /\ cart.store = order.store
    /\ cart.items # <<>>
    /\ Len(cart.items) = Len(order.items)
    /\ \A i \in 1..Len(cart.items) :
        /\ cart.items[i].product = order.items[i].product
        /\ cart.items[i].quantity = order.items[i].quantity
        /\ cart.items[i].price = order.items[i].price
        /\ cart.items[i].customizations = <<>> /\ cart.items[i].addons = <<>>
        /\ order.items[i].options = <<>>
    /\ cart.subtotal = order.pricing.subtotal
    /\ cart.deliveryFee = order.pricing.deliveryFee
    /\ cart.discount = order.pricing.discount

============================================================================
